---------------------------- MODULE Spec2Model ----------------------------
(***************************************************************************)
(* A model of the cost computation and free-tier subsystem of              *)
(* gcp-cost-mcp-server: the tiered price calculator (pricing.Client),      *)
(* the free-tier service with its time-bound cache (freetier.Service),     *)
(* the document fetcher's address check (freetier.GCPDocScraperClient)     *)
(* and the estimate_cost tool handler (tools.NewEstimateCost).             *)
(*                                                                         *)
(* Numbers.  Usage amounts and thresholds are float64 in the program; the  *)
(* model uses naturals.  A price is a Money value, units + nanos/1e9; a    *)
(* cost is kept exactly as a pair [units, nanos] with 0 <= nanos < 1e9,    *)
(* so no rounding of the floating-point sum is modelled.                   *)
(***************************************************************************)
EXTENDS Integers, Sequences, FiniteSets, TLC

VARIABLES
    rate,         \* CalculateCost: the *Rate argument (NilRate or a Rate)
    usageAmount,  \* CalculateCost: the usage argument
    calcResult,   \* CalculateCost: what the call returned (NoResult before)
    address,      \* FetchAsText: the url argument, by its components
    fetchResult,  \* FetchAsText: what the call returned (NoResult before)
    call,         \* a call of one of the other pure functions: its arguments
    returned,     \* what that call returned (NoResult before)
    cache,        \* Service.cache: service key -> address of a CachedFreeTier
    entries,      \* the CachedFreeTier values allocated so far, by address
    mu,           \* Service.cacheMutex: its writer and its readers
    now,          \* time.Now(), in hours since the service was created
    pc,           \* where each caller is in the method it runs
    loc,          \* each caller's arguments, local variables and return values
    calls         \* number of calls started so far

calcVars == <<rate, usageAmount, calcResult>>
fetchVars == <<address, fetchResult>>
callVars == <<call, returned>>
pureVars == <<calcVars, fetchVars, callVars>>
svcVars == <<cache, entries, mu, now, pc, loc, calls>>
vars == <<rate, usageAmount, calcResult, address, fetchResult, call, returned, cache, entries, mu, now, pc, loc, calls>>

---------------------------------------------------------------------------
(* Bounds of the model *)

MaxTiers == 3
MaxStart == 2
MaxUsage == 4
MaxCalls == 3
MaxClock == 48
MaxLimit == 3
MaxPhrases == 3
MaxMatches == 2
MaxItems == 2
MaxPieces == 3

---------------------------------------------------------------------------
(* Small helpers *)

Min(a, b) == IF a < b THEN a ELSE b
Max(a, b) == IF a > b THEN a ELSE b

---------------------------------------------------------------------------
(* Go strings: the package strings functions the program uses *)

Char(s, i) == SubSeq(s, i, i)

UpperLetters == "ABCDEFGHIJKLMNOPQRSTUVWXYZ"
LowerLetters == "abcdefghijklmnopqrstuvwxyz"

LowerChar(c) ==
    IF \E i \in 1..26 : Char(UpperLetters, i) = c
    THEN Char(LowerLetters, CHOOSE i \in 1..26 : Char(UpperLetters, i) = c)
    ELSE c

\* strings.ToLower
RECURSIVE ToLower(_)
ToLower(s) ==
    IF Len(s) = 0 THEN "" ELSE LowerChar(Char(s, 1)) \o ToLower(SubSeq(s, 2, Len(s)))

\* strings.HasPrefix
HasPrefix(s, prefix) ==
    Len(s) >= Len(prefix) /\ SubSeq(s, 1, Len(prefix)) = prefix

\* strings.Index, counted from 1; 0 when substr does not occur in s
Index(s, substr) ==
    LET at == {i \in 1..(Len(s) - Len(substr) + 1) :
                  SubSeq(s, i, i + Len(substr) - 1) = substr}
    IN  IF at = {} THEN 0 ELSE CHOOSE i \in at : \A j \in at : i <= j

\* strings.Contains
Contains(s, substr) == Index(s, substr) > 0

\* strings.ReplaceAll for a non-empty old
RECURSIVE ReplaceAll(_, _, _)
ReplaceAll(s, old, new) ==
    LET i == Index(s, old)
    IN  IF i = 0 THEN s
        ELSE SubSeq(s, 1, i - 1) \o new
               \o ReplaceAll(SubSeq(s, i + Len(old), Len(s)), old, new)

IsSpace(c) == c = " " \/ c = "\t" \/ c = "\n" \/ c = "\r"

\* strings.TrimSpace
RECURSIVE TrimSpace(_)
TrimSpace(s) ==
    IF Len(s) = 0 THEN s
    ELSE IF IsSpace(Char(s, 1)) THEN TrimSpace(SubSeq(s, 2, Len(s)))
    ELSE IF IsSpace(Char(s, Len(s))) THEN TrimSpace(SubSeq(s, 1, Len(s) - 1))
    ELSE s

\* strings.EqualFold on the ASCII strings of the model
EqualFold(s, t) == ToLower(s) = ToLower(t)

---------------------------------------------------------------------------
(* pricing: Rate, Tier, Amount, Money *)

NanosPerUnit == 1000000000

\* A nil *Rate, and the result slot before the call has returned.
NilRate == [isNil |-> TRUE]
NoResult == [returned |-> FALSE]
NoCall == [fn |-> ""]

\* Amount.Value and Money.Units are decimal strings on the wire.
NumeralMax == MaxStart + MaxUsage + 2
Numerals == {ToString(n) : n \in 0..NumeralMax}

\* strconv.ParseFloat with the error dropped: the number a decimal numeral
\* denotes, and 0 for anything that is not a numeral (the empty string of an
\* omitted field included).
ParseFloat(s) ==
    IF s \in Numerals THEN CHOOSE n \in 0..NumeralMax : ToString(n) = s ELSE 0

StartValues == {""} \cup {ToString(n) : n \in 0..MaxStart}

ListPrices ==
    { [Units |-> "0", Nanos |-> 0],
      [Units |-> "0", Nanos |-> 100000000],
      [Units |-> "1", Nanos |-> 500000000] }

Tiers == [StartAmount : [Value : StartValues], ListPrice : ListPrices]

TierLists == UNION {[1..n -> Tiers] : n \in 0..MaxTiers}

Rates == [Tiers : TierLists]

\* An exact amount of money: units + nanos/1e9, 0 <= nanos < 1e9.
Normalize(u, n) ==
    [units |-> u + (n \div NanosPerUnit), nanos |-> n % NanosPerUnit]

ZeroCost == [units |-> 0, nanos |-> 0]

\* A sum that keeps only the amount added last.
CostAddMutOverwrites(a, b) == Normalize(b.units, b.nanos)

CostAdd(a, b) == Normalize(a.units + b.units, a.nanos + b.nanos)

\* usageInTier * pricePerUnit, pricePerUnit = units + nanos/1e9;
\* the nanos of a price are below 1e9, so q * (nanos \div 1000) stays in range.
CostTimes(q, units, nanos) ==
    LET thousandths == q * (nanos \div 1000)
    IN  Normalize(q * units + (thousandths \div 1000000),
                  (thousandths % 1000000) * 1000 + q * (nanos % 1000))

\* A per-unit price that forgets the whole units of the list price.
PricePerUnitMutNanosOnly(tier) == [units |-> 0, nanos |-> tier.ListPrice.Nanos]

\* The per-unit price CalculateCost gives a tier: units + nanos.
PricePerUnit(tier) ==
    [units |-> ParseFloat(tier.ListPrice.Units), nanos |-> tier.ListPrice.Nanos]

\* The loop with a last tier that ends one unit after its start instead of
\* reaching over all the usage that remains.
RECURSIVE CalcLoopMutLastTierBounded(_, _, _, _, _)
CalcLoopMutLastTierBounded(tiers, i, totalCost, remainingUsage, billed) ==
    IF i > Len(tiers)
    THEN [cost |-> totalCost, billed |-> billed]
    ELSE
      LET tier        == tiers[i]
          startAmount == ParseFloat(tier.StartAmount.Value)
          endAmount   == IF i + 1 <= Len(tiers)
                         THEN ParseFloat(tiers[i + 1].StartAmount.Value)
                         ELSE startAmount + 1
          tierRange   == endAmount - startAmount
          usageInTier == IF remainingUsage > tierRange THEN tierRange
                                                       ELSE remainingUsage
          p           == PricePerUnit(tier)
          total2      == CostAdd(totalCost, CostTimes(usageInTier, p.units, p.nanos))
          remaining2  == remainingUsage - usageInTier
      IN  IF tierRange <= 0
          THEN CalcLoopMutLastTierBounded(tiers, i + 1, totalCost,
                                          remainingUsage, Append(billed, 0))
          ELSE IF remaining2 <= 0
               THEN [cost   |-> total2,
                     billed |-> Append(billed, usageInTier)
                                  \o [k \in 1..(Len(tiers) - i) |-> 0]]
               ELSE CalcLoopMutLastTierBounded(tiers, i + 1, total2, remaining2,
                                               Append(billed, usageInTier))

\* The loop of CalculateCost from tier i on: totalCost and remainingUsage are
\* the loop's variables, billed the usageInTier of every tier visited so far
\* (0 for a tier the loop skips or never reaches).
RECURSIVE CalcLoop(_, _, _, _, _)
CalcLoop(tiers, i, totalCost, remainingUsage, billed) ==
    IF i > Len(tiers)
    THEN [cost |-> totalCost, billed |-> billed]
    ELSE
      LET tier        == tiers[i]
          startAmount == ParseFloat(tier.StartAmount.Value)
          endAmount   == IF i + 1 <= Len(tiers)
                         THEN ParseFloat(tiers[i + 1].StartAmount.Value)
                         ELSE remainingUsage + startAmount + 1
          tierRange   == endAmount - startAmount
          usageInTier == IF remainingUsage > tierRange THEN tierRange
                                                       ELSE remainingUsage
          p           == PricePerUnit(tier)
          total2      == CostAdd(totalCost, CostTimes(usageInTier, p.units, p.nanos))
          remaining2  == remainingUsage - usageInTier
      IN  IF tierRange <= 0
          THEN CalcLoop(tiers, i + 1, totalCost, remainingUsage, Append(billed, 0))
          ELSE IF remaining2 <= 0
               THEN [cost   |-> total2,
                     billed |-> Append(billed, usageInTier)
                                  \o [k \in 1..(Len(tiers) - i) |-> 0]]
               ELSE CalcLoop(tiers, i + 1, total2, remaining2,
                             Append(billed, usageInTier))

\* CalculateCost without its empty-tier-list check.
CalculateCostMutNoEmptyCheck(r, usage) ==
    IF r = NilRate
    THEN [err |-> TRUE, cost |-> ZeroCost, billed |-> <<>>]
    ELSE LET out == CalcLoop(r.Tiers, 1, ZeroCost, usage, <<>>)
         IN  [err |-> FALSE, cost |-> out.cost, billed |-> out.billed]

\* Client.CalculateCost: err is TRUE when the call returns an error (and the
\* zero cost with it); billed lists what each tier was charged for.
CalculateCost(r, usage) ==
    IF r = NilRate
    THEN [err |-> TRUE, cost |-> ZeroCost, billed |-> <<>>]
    ELSE IF Len(r.Tiers) = 0
    THEN [err |-> TRUE, cost |-> ZeroCost, billed |-> <<>>]
    ELSE LET out == CalcLoop(r.Tiers, 1, ZeroCost, usage, <<>>)
         IN  [err |-> FALSE, cost |-> out.cost, billed |-> out.billed]

---------------------------------------------------------------------------
(* freetier: records *)

\* A nil *FreeTierInfo.
NilInfo == [isNil |-> TRUE]

FreeTierItem(resource, amount, unit) ==
    [Resource |-> resource, Amount |-> amount, Unit |-> unit]

\* A record built without its source address.
FreeTierInfoMutNoSource(serviceName, items, scope, period, sourceURL) ==
    [ServiceName |-> serviceName, Items |-> items, Scope |-> scope,
     Period |-> period, SourceURL |-> ""]

FreeTierInfo(serviceName, items, scope, period, sourceURL) ==
    [ServiceName |-> serviceName, Items |-> items, Scope |-> scope,
     Period |-> period, SourceURL |-> sourceURL]

---------------------------------------------------------------------------
(* freetier: the search client (DuckDuckGoClient) *)

SearchResult(url, title) == [URL |-> url, Title |-> title]

\* extractTitle; Index counts from 1, the program's idx from 0.
extractTitle(text) ==
    LET idx == Index(text, " - ") - 1
    IN  IF idx > 0 /\ idx < 100 THEN SubSeq(text, 1, idx)
        ELSE IF Len(text) > 100 THEN SubSeq(text, 1, 100) \o "..."
        ELSE text

\* extractServiceName
extractServiceName(query) ==
    TrimSpace(
      ReplaceAll(
        ReplaceAll(
          ReplaceAll(ToLower(query), "site:cloud.google.com", ""),
          "pricing", ""),
        "free tier", ""))

\* The urlMappings table of generatePricingURLs.
urlMappings ==
    [k \in { "cloud run", "cloud-run", "compute engine", "compute-engine",
             "cloud storage", "cloud-storage", "bigquery", "cloud sql",
             "cloud-sql", "gke", "kubernetes engine", "cloud functions",
             "cloud-functions", "pub/sub", "pubsub", "firestore", "spanner",
             "cloud spanner", "memorystore", "cloud cdn", "cloud armor",
             "artifact registry", "artifact-registry", "secret manager",
             "secret-manager", "app engine", "app-engine",
             "cloud load balancing", "vertex ai", "vertex-ai" } |->
       CASE k \in {"cloud run", "cloud-run"} -> <<"run/pricing", "run/pricing/">>
         [] k \in {"compute engine", "compute-engine"} ->
              <<"compute/all-pricing", "compute/pricing">>
         [] k \in {"cloud storage", "cloud-storage"} ->
              <<"storage/pricing", "storage-pricing">>
         [] k = "bigquery" -> <<"bigquery/pricing", "bigquery/pricing/">>
         [] k \in {"cloud sql", "cloud-sql"} -> <<"sql/pricing", "sql/pricing/">>
         [] k \in {"gke", "kubernetes engine"} ->
              <<"kubernetes-engine/pricing", "kubernetes-engine/pricing/">>
         [] k \in {"cloud functions", "cloud-functions"} ->
              <<"functions/pricing", "functions/pricing/">>
         [] k \in {"pub/sub", "pubsub"} -> <<"pubsub/pricing", "pubsub/pricing/">>
         [] k = "firestore" -> <<"firestore/pricing", "firestore/pricing/">>
         [] k \in {"spanner", "cloud spanner"} ->
              <<"spanner/pricing", "spanner/pricing/">>
         [] k = "memorystore" -> <<"memorystore/pricing", "memorystore/pricing/">>
         [] k = "cloud cdn" -> <<"cdn/pricing", "cdn/pricing/">>
         [] k = "cloud armor" -> <<"armor/pricing", "armor/pricing/">>
         [] k \in {"artifact registry", "artifact-registry"} ->
              <<"artifact-registry/pricing", "artifact-registry/pricing/">>
         [] k \in {"secret manager", "secret-manager"} ->
              <<"secret-manager/pricing", "secret-manager/pricing/">>
         [] k \in {"app engine", "app-engine"} ->
              <<"appengine/pricing", "appengine/pricing/">>
         [] k = "cloud load balancing" ->
              <<"load-balancing/pricing", "load-balancing/pricing/">>
         [] k \in {"vertex ai", "vertex-ai"} ->
              <<"vertex-ai/pricing", "vertex-ai/pricing/">>]

baseURL == "https://cloud.google.com/"

\* generatePricingURLs
generatePricingURLs(serviceName) ==
    LET urlName == ReplaceAll(ReplaceAll(ToLower(serviceName), " ", "-"), "_", "-")
    IN  IF urlName \in DOMAIN urlMappings
        THEN [i \in 1..Len(urlMappings[urlName]) |-> baseURL \o urlMappings[urlName][i]]
        ELSE << baseURL \o urlName \o "/pricing",
                baseURL \o urlName \o "-pricing",
                baseURL \o ReplaceAll(urlName, "-", "/") \o "/pricing" >>

\* constructFallbackResults
constructFallbackResults(query, limit) ==
    LET serviceName == extractServiceName(query)
        baseURLs    == generatePricingURLs(serviceName)
    IN  IF serviceName = "" THEN <<>>
        ELSE [i \in 1..Min(Len(baseURLs), Max(limit, 0)) |->
                SearchResult(baseURLs[i], serviceName \o " Pricing - Google Cloud")]

\* What the search API answers: kind is "transport_error", "bad_status",
\* "bad_body" (unreadable or not JSON) or "ok"; an "ok" answer carries the
\* decoded AbstractURL and RelatedTopics.
DDGResponse(kind, abstractURL, relatedTopics) ==
    [kind |-> kind, AbstractURL |-> abstractURL, RelatedTopics |-> relatedTopics]

Topic(firstURL, text) == [FirstURL |-> firstURL, Text |-> text]

\* The related-topics loop of Search from topic i on.
RECURSIVE TopicsLoop(_, _, _, _)
TopicsLoop(topics, i, results, limit) ==
    IF i > Len(topics) THEN results
    ELSE LET topic    == topics[i]
             results2 == IF topic.FirstURL # ""
                            /\ Contains(topic.FirstURL, "cloud.google.com")
                         THEN Append(results,
                                     SearchResult(topic.FirstURL, extractTitle(topic.Text)))
                         ELSE results
         IN  IF Len(results2) >= limit THEN results2
             ELSE TopicsLoop(topics, i + 1, results2, limit)

\* DuckDuckGoClient.Search for one answer resp of the search API.  The request
\* is always well formed, so the only error return of Search cannot happen.
Search(query, limit, resp) ==
    IF resp.kind # "ok"
    THEN [results |-> constructFallbackResults(query, limit), err |-> FALSE]
    ELSE LET abstract == IF resp.AbstractURL # ""
                            /\ Contains(resp.AbstractURL, "cloud.google.com")
                         THEN <<SearchResult(resp.AbstractURL, "GCP Documentation")>>
                         ELSE <<>>
             results  == TopicsLoop(resp.RelatedTopics, 1, abstract, limit)
         IN  IF Len(results) = 0
             THEN [results |-> constructFallbackResults(query, limit), err |-> FALSE]
             ELSE [results |-> results, err |-> FALSE]

---------------------------------------------------------------------------
(* freetier: the document fetcher (GCPDocScraperClient) *)

\* What the network does with one GET: kind is "transport_error",
\* "bad_status", "read_error" or "ok"; an "ok" answer carries the text that
\* extractTextFromHTML makes of the body.  A text is known to the model by what
\* the extractors return on it: pricingItems is ExtractFreeTierItems of its
\* ExtractPricingSection, fullItems is ExtractFreeTierItems of the whole text,
\* scope and period are ExtractScope and ExtractPeriod of the whole text,
\* sectionScope and sectionPeriod what they return on its ExtractPricingSection.
NetAnswer(kind, text) == [kind |-> kind, text |-> text]

Text(pricingItems, fullItems, scope, period, sectionScope, sectionPeriod) ==
    [pricingItems |-> pricingItems, fullItems |-> fullItems,
     scope |-> scope, period |-> period,
     sectionScope |-> sectionScope, sectionPeriod |-> sectionPeriod]

NoText == Text(<<>>, <<>>, "", "", "", "")

\* http.NewRequestWithContext refuses an address with a control character.
RequestCreated(url) == ~Contains(url, "\n")

\* GCPDocScraperClient.FetchAsText: err is "" for a nil error; requested tells
\* whether the GET was issued.
FetchAsText(url, net) ==
    IF ~HasPrefix(url, "https://cloud.google.com")
    THEN [err |-> "untrusted", requested |-> FALSE, text |-> NoText]
    ELSE IF ~RequestCreated(url)
    THEN [err |-> "request", requested |-> FALSE, text |-> NoText]
    ELSE IF net.kind # "ok"
    THEN [err |-> net.kind, requested |-> TRUE, text |-> NoText]
    ELSE [err |-> "", requested |-> TRUE, text |-> net.text]

---------------------------------------------------------------------------
(* freetier: ExtractPricingSection *)

\* A document text as ExtractPricingSection sees it: a list of pieces, each a
\* word (text) or a stretch of other characters, with its length in bytes and
\* the length in bytes of its image under strings.ToLower.  The two lengths
\* differ for letters whose lower-case form has another UTF-8 length: U+023A
\* (2 bytes) becomes U+2C65 (3 bytes), U+212A (3 bytes) becomes "k" (1 byte).
Piece(text, bytes, lowerBytes) ==
    [text |-> text, bytes |-> bytes, lowerBytes |-> lowerBytes]

Word(text) == Piece(text, Len(text), Len(ToLower(text)))

\* len(content) up to and including piece k.
RECURSIVE ByteLen(_, _)
ByteLen(content, k) ==
    IF k = 0 THEN 0 ELSE ByteLen(content, k - 1) + content[k].bytes

\* len(contentLower) up to and including piece k.
RECURSIVE LowerLen(_, _)
LowerLen(content, k) ==
    IF k = 0 THEN 0 ELSE LowerLen(content, k - 1) + content[k].lowerBytes

sectionMarkers ==
    <<"pricing", "free tier", "free usage", "at no charge", "no cost",
      "free of charge", "monthly free", "always free">>

\* strings.Index(contentLower, marker): -1 when the marker does not occur.
IndexOfMarker(content, marker) ==
    LET at == {k \in 1..Len(content) : ToLower(content[k].text) = marker}
    IN  IF at = {} THEN -1
        ELSE LowerLen(content, (CHOOSE k \in at : \A j \in at : k <= j) - 1)

\* The lead kept before the first marker and the length taken from there.
sectionLead == 200
sectionLength == 5000

\* GCPDocScraperClient.ExtractPricingSection: the whole content, or the bytes
\* content[from:to], or the run-time panic of a slice whose bounds are out of
\* range.
ExtractPricingSection(content) ==
    LET found    == {IndexOfMarker(content, sectionMarkers[m]) :
                       m \in 1..Len(sectionMarkers)} \ {-1}
        length   == ByteLen(content, Len(content))
    IN  IF found = {}
        THEN [outcome |-> "content", from |-> 0, to |-> length]
        ELSE LET first    == CHOOSE i \in found : \A j \in found : i <= j
                 startIdx == Max(0, first - sectionLead)
                 endIdx   == Min(length, startIdx + sectionLength)
             IN  IF startIdx > endIdx
                 THEN [outcome |-> "panic", from |-> startIdx, to |-> endIdx]
                 ELSE [outcome |-> "slice", from |-> startIdx, to |-> endIdx]

---------------------------------------------------------------------------
(* freetier: the pattern table and ExtractFreeTierItems *)

\* freeTierPatterns, in table order.  Of a rule's regular expression the
\* model keeps the character class of its one capture group, the amount.
FreeTierPattern(amount, resource, unit) ==
    [Amount |-> amount, Resource |-> resource, Unit |-> unit]

freeTierPatterns ==
    << FreeTierPattern("[0-9,]+", "vCPU-seconds", "seconds"),
       FreeTierPattern("[0-9,]+", "GiB-seconds", "seconds"),
       FreeTierPattern("[0-9,]+", "vCPU-seconds", "seconds"),
       FreeTierPattern("[0-9,]+", "GiB-seconds", "seconds"),
       FreeTierPattern("[0-9.]+", "storage", "GiB"),
       FreeTierPattern("[0-9.]+", "storage", "GiB"),
       FreeTierPattern("[0-9.]+", "requests", "million"),
       FreeTierPattern("[0-9,]+", "requests", "count"),
       FreeTierPattern("[0-9,]+", "document-reads", "count"),
       FreeTierPattern("[0-9,]+", "document-writes", "count"),
       FreeTierPattern("[0-9,]+", "document-deletes", "count"),
       FreeTierPattern("\\d+", "secret-versions", "count"),
       FreeTierPattern("[0-9,]+", "access-operations", "count"),
       FreeTierPattern("[0-9.]+", "query-processing", "TiB"),
       FreeTierPattern("[0-9.]+", "egress", "GiB"),
       FreeTierPattern("[0-9.]+", "cluster-credit", "USD"),
       FreeTierPattern("[0-9.]+", "message-delivery", "GiB") >>

\* A text is known to the extractor by the matches of the rules in it: a
\* list, in text order, of which rule matched and what its capture group
\* holds.  pattern.Regex.FindAllStringSubmatch(content, -1), for rule p, as
\* the list of the match[1] of its matches.
Match(rule, amount) == [rule |-> rule, amount |-> amount]

FindAllStringSubmatch(p, content) ==
    LET OfRule(m) == m.rule = p
        found == SelectSeq(content, OfRule)
    IN  [i \in 1..Len(found) |-> found[i].amount]

Digits == "0123456789"
IsDigit(c) == \E i \in 1..10 : Char(Digits, i) = c
DigitValue(c) == (CHOOSE i \in 1..10 : Char(Digits, i) = c) - 1

\* The value of a string of digits.
RECURSIVE DigitsValue(_)
DigitsValue(s) ==
    IF Len(s) = 0 THEN 0
    ELSE DigitsValue(SubSeq(s, 1, Len(s) - 1)) * 10 + DigitValue(Char(s, Len(s)))

\* strconv.ParseFloat(s, 64) on a string of digits and points: the error when
\* s has no digit or more than one point, else the value.  The numerals of the
\* model's texts have no digit other than 0 after the point, so the value is
\* that of the digits before it.
ParseFloatErr(s) ==
    \/ ~\E i \in 1..Len(s) : IsDigit(Char(s, i))
    \/ Cardinality({i \in 1..Len(s) : Char(s, i) = "."}) > 1
    \/ \E i \in 1..Len(s) : ~IsDigit(Char(s, i)) /\ Char(s, i) # "."

ParseFloatValue(s) ==
    LET point == Index(s, ".")
    IN  DigitsValue(IF point = 0 THEN s ELSE SubSeq(s, 1, point - 1))

\* An extractor that stores a "million" amount as it stands.
ScaledAmountMutNoScaling(pattern, amount) == amount

\* if pattern.Unit == "million" { amount *= 1_000_000 }
ScaledAmount(pattern, amount) ==
    IF pattern.Unit = "million" THEN amount * 1000000 ELSE amount

\* A duplicate test that looks at the resource alone.
DedupKeyMutResourceOnly(pattern, amountStr) == pattern.Resource

\* key := pattern.Resource + "-" + amountStr
DedupKey(pattern, amountStr) == pattern.Resource \o "-" \o amountStr

\* The loop over the matches of one rule, from match i on; acc holds items
\* and seen.
RECURSIVE MatchLoop(_, _, _, _)
MatchLoop(pattern, matches, i, acc) ==
    IF i > Len(matches) THEN acc
    ELSE LET amountStr == ReplaceAll(matches[i], ",", "")
             key       == DedupKey(pattern, amountStr)
         IN  IF ParseFloatErr(amountStr)
             THEN MatchLoop(pattern, matches, i + 1, acc)
             ELSE IF key \in acc.seen
             THEN MatchLoop(pattern, matches, i + 1, acc)
             ELSE MatchLoop(pattern, matches, i + 1,
                    [items |-> Append(acc.items,
                                 FreeTierItem(
                                   pattern.Resource,
                                   ScaledAmount(pattern, ParseFloatValue(amountStr)),
                                   IF pattern.Unit = "million" THEN "count"
                                   ELSE pattern.Unit)),
                     seen |-> acc.seen \cup {key}])

\* The loop over the rules, from rule p on.
RECURSIVE PatternLoop(_, _, _)
PatternLoop(content, p, acc) ==
    IF p > Len(freeTierPatterns) THEN acc
    ELSE PatternLoop(content, p + 1,
                     MatchLoop(freeTierPatterns[p],
                               FindAllStringSubmatch(p, content), 1, acc))

\* ExtractFreeTierItems
ExtractFreeTierItems(content) ==
    PatternLoop(content, 1, [items |-> <<>>, seen |-> {}]).items

---------------------------------------------------------------------------
(* freetier: the scope and period classifiers *)

\* A classifier that looks for the project cue first.
ExtractScopeMutProjectFirst(content) ==
    LET contentLower == ToLower(content)
    IN  IF Contains(contentLower, "per project") THEN "project"
        ELSE "account"

\* ExtractScope
ExtractScope(content) ==
    LET contentLower == ToLower(content)
    IN  IF \/ Contains(contentLower, "per billing account")
           \/ Contains(contentLower, "per account")
           \/ Contains(contentLower, "across all projects")
        THEN "account"
        ELSE IF Contains(contentLower, "per project") THEN "project"
        ELSE "account"

\* ExtractPeriod
ExtractPeriod(content) ==
    LET contentLower == ToLower(content)
    IN  IF \/ Contains(contentLower, "per day")
           \/ Contains(contentLower, "daily")
           \/ Contains(contentLower, "/day")
        THEN "day"
        ELSE IF Contains(contentLower, "always free") THEN "always"
        ELSE "month"

---------------------------------------------------------------------------
(* freetier: the resolver (Service.fetchFreeTierFromDocs) *)

\* The limit fetchFreeTierFromDocs passes to Search.
SearchLimit == 3

\* A record whose scope and period are classified from the pricing section.
RecordOfMutClassifiesSection(serviceName, items, content, URL) ==
    FreeTierInfo(serviceName, items, content.sectionScope,
                 content.sectionPeriod, URL)

\* The record fetchFreeTierFromDocs builds from a candidate: Scope and Period
\* are ExtractScope(content) and ExtractPeriod(content), content the whole
\* fetched text.
RecordOf(serviceName, items, content, URL) ==
    FreeTierInfo(serviceName, items, content.scope, content.period, URL)

\* The document a record's items were extracted from: the address handed to
\* FetchAsText and the network's answer to that fetch.
Document(URL, answer) == [URL |-> URL, answer |-> answer]

NoDocument == [none |-> TRUE]

\* The candidate loop of fetchFreeTierFromDocs from result i on.  net[i] is the
\* network's answer to the fetch of result i; fetched lists the addresses
\* handed to FetchAsText so far, requested those a GET was issued for, and
\* document is the document the items of the record came from.
RECURSIVE CandidateLoop(_, _, _, _, _, _, _)
CandidateLoop(serviceName, results, net, i, lastErr, fetched, requested) ==
    IF i > Len(results)
    THEN [info |-> NilInfo,
          err |-> IF lastErr # "" THEN lastErr ELSE "no free tier information",
          fetched |-> fetched, requested |-> requested,
          document |-> NoDocument]
    ELSE
      LET result == results[i]
      IN  IF ~Contains(result.URL, "cloud.google.com")
          THEN CandidateLoop(serviceName, results, net, i + 1, lastErr,
                             fetched, requested)
          ELSE IF ~Contains(ToLower(result.URL), "pricing")
                  /\ ~Contains(ToLower(result.Title), "pricing")
          THEN CandidateLoop(serviceName, results, net, i + 1, lastErr,
                             fetched, requested)
          ELSE
            LET got        == FetchAsText(result.URL, net[i])
                fetched2   == Append(fetched, result.URL)
                requested2 == IF got.requested THEN Append(requested, result.URL)
                                               ELSE requested
                content    == got.text
                items      == IF Len(content.pricingItems) = 0
                              THEN content.fullItems
                              ELSE content.pricingItems
            IN  IF got.err # ""
                THEN CandidateLoop(serviceName, results, net, i + 1, got.err,
                                   fetched2, requested2)
                ELSE IF Len(items) > 0
                THEN [info |-> RecordOf(serviceName, items, content, result.URL),
                      err |-> "", fetched |-> fetched2, requested |-> requested2,
                      document |-> Document(result.URL, net[i])]
                ELSE CandidateLoop(serviceName, results, net, i + 1, lastErr,
                                   fetched2, requested2)

\* A resolver that runs the search and the loop a second time when the first
\* pass gave no record.
fetchFreeTierFromDocsMutRetries(serviceName, resp, net) ==
    LET query  == "site:cloud.google.com " \o serviceName \o " pricing"
        search == Search(query, SearchLimit, resp)
        out    == CandidateLoop(serviceName, search.results, net, 1, "",
                                <<>>, <<>>)
        again  == CandidateLoop(serviceName, search.results, net, 1, "",
                                out.fetched, out.requested)
    IN  IF out.err = ""
        THEN [info |-> out.info, err |-> out.err, searches |-> 1,
              fetched |-> out.fetched, requested |-> out.requested,
              document |-> out.document]
        ELSE [info |-> again.info, err |-> again.err, searches |-> 2,
              fetched |-> again.fetched, requested |-> again.requested,
              document |-> again.document]

\* A resolver whose loop starts at the second candidate.
fetchFreeTierFromDocsMutSkipsFirst(serviceName, resp, net) ==
    LET query  == "site:cloud.google.com " \o serviceName \o " pricing"
        search == Search(query, SearchLimit, resp)
    IN  IF search.err
        THEN [info |-> NilInfo, err |-> "search failed",
              searches |-> 1, fetched |-> <<>>, requested |-> <<>>,
              document |-> NoDocument]
        ELSE IF Len(search.results) = 0
        THEN [info |-> NilInfo, err |-> "no pricing pages found",
              searches |-> 1, fetched |-> <<>>, requested |-> <<>>,
              document |-> NoDocument]
        ELSE LET out == CandidateLoop(serviceName, search.results, net, 2, "",
                                      <<>>, <<>>)
             IN  [info |-> out.info, err |-> out.err, searches |-> 1,
                  fetched |-> out.fetched, requested |-> out.requested,
                  document |-> out.document]

\* Service.fetchFreeTierFromDocs for one answer resp of the search API and the
\* answers net of the network to the fetches: err is "" for a nil error.
fetchFreeTierFromDocs(serviceName, resp, net) ==
    LET query  == "site:cloud.google.com " \o serviceName \o " pricing"
        search == Search(query, SearchLimit, resp)
    IN  IF search.err
        THEN [info |-> NilInfo, err |-> "search failed",
              searches |-> 1, fetched |-> <<>>, requested |-> <<>>,
              document |-> NoDocument]
        ELSE IF Len(search.results) = 0
        THEN [info |-> NilInfo, err |-> "no pricing pages found",
              searches |-> 1, fetched |-> <<>>, requested |-> <<>>,
              document |-> NoDocument]
        ELSE LET out == CandidateLoop(serviceName, search.results, net, 1, "",
                                      <<>>, <<>>)
             IN  [info |-> out.info, err |-> out.err, searches |-> 1,
                  fetched |-> out.fetched, requested |-> out.requested,
                  document |-> out.document]

\* A key built with the spaces replaced before the name is trimmed.
normalizeServiceNameMutReplaceFirst(name) ==
    TrimSpace(ReplaceAll(ToLower(name), " ", "-"))

\* normalizeServiceName
normalizeServiceName(name) == ReplaceAll(TrimSpace(ToLower(name)), " ", "-")

\* The time-to-live NewService sets, in hours.
cacheTTL == 24

\* A CachedFreeTier value.
CachedFreeTier(info, cachedAt, expiresAt) ==
    [Info |-> info, CachedAt |-> cachedAt, ExpiresAt |-> expiresAt]

\* An entry that counts as expired from its expiry instant on.
IsExpiredMutNotBefore(c, t) == t >= c.ExpiresAt

\* CachedFreeTier.IsExpired at time t: time.Now().After(c.ExpiresAt)
IsExpired(c, t) == t > c.ExpiresAt

---------------------------------------------------------------------------
(* freetier: FindMatchingFreeTierItem *)

\* The unitMapping table of FindMatchingFreeTierItem.
unitMapping ==
    [u \in {"s", "GiBy", "GiBy.s", "By", "count", "1", "h", "mo"} |->
       CASE u = "s" -> <<"vCPU-seconds", "GiB-seconds", "seconds">>
         [] u = "GiBy" -> <<"GiB-seconds", "storage">>
         [] u = "GiBy.s" -> <<"GiB-seconds">>
         [] u = "By" -> <<"storage", "egress">>
         [] u = "count" -> <<"requests", "operations", "access-operations",
                             "document-reads", "document-writes",
                             "document-deletes">>
         [] u = "1" -> <<"requests", "operations", "secret-versions">>
         [] u = "h" -> <<"hours">>
         [] u = "mo" -> <<"months">>]

\* A nil *FreeTierItem.
NilItem == [isNil |-> TRUE]

\* FindMatchingFreeTierItem with the loop's return moved after the loop: the
\* last matching item wins.
FindMatchingFreeTierItemMutLastMatch(freeTier, usageUnit) ==
    IF freeTier = NilInfo THEN NilItem
    ELSE IF Len(freeTier.Items) = 0 THEN NilItem
    ELSE
      LET items == freeTier.Items
          hit(i) ==
            IF usageUnit \in DOMAIN unitMapping
            THEN \E j \in 1..Len(unitMapping[usageUnit]) :
                   Contains(ToLower(items[i].Resource),
                            ToLower(unitMapping[usageUnit][j]))
            ELSE EqualFold(items[i].Unit, usageUnit)
          hits == {i \in 1..Len(items) : hit(i)}
      IN  IF hits = {} THEN NilItem
          ELSE items[CHOOSE i \in hits : \A j \in hits : j <= i]

\* FindMatchingFreeTierItem: the first item, in record order, that matches.
FindMatchingFreeTierItem(freeTier, usageUnit) ==
    IF freeTier = NilInfo THEN NilItem
    ELSE IF Len(freeTier.Items) = 0 THEN NilItem
    ELSE
      LET items == freeTier.Items
          hit(i) ==
            IF usageUnit \in DOMAIN unitMapping
            THEN \E j \in 1..Len(unitMapping[usageUnit]) :
                   Contains(ToLower(items[i].Resource),
                            ToLower(unitMapping[usageUnit][j]))
            ELSE EqualFold(items[i].Unit, usageUnit)
          hits == {i \in 1..Len(items) : hit(i)}
      IN  IF hits = {} THEN NilItem
          ELSE items[CHOOSE i \in hits : \A j \in hits : i <= j]

---------------------------------------------------------------------------
(* tools: the estimate_cost handler (NewEstimateCost) *)

\* main hands the handler a free-tier service.
FreeTierServiceGiven == TRUE

\* EstimateCostInput; the currency code, region and description are passed
\* through to the output and are left out.
EstimateCostInput(skuID, usage, serviceName) ==
    [SKUID |-> skuID, UsageAmount |-> usage, ServiceName |-> serviceName]

\* What GetSKUPrice gives the handler: an error, or a response whose first
\* SKUPrice entry is missing, has a nil Rate, or has a Rate.
PriceLookup(kind, r) == [kind |-> kind, rate |-> r]

EstRate(tiers, unit) == [Tiers |-> tiers, UnitInfo |-> [Unit |-> unit]]

Tier(start, units, nanos) ==
    [StartAmount |-> [Value |-> start],
     ListPrice |-> [Units |-> units, Nanos |-> nanos]]

\* freeTierApplied = min(totalUsage, matchingItem.Amount)
FreeTierApplied(totalUsage, amount) == Min(totalUsage, amount)

\* A deduction that is not clamped at zero.
BillableUsageMutNoClamp(totalUsage, amount) == totalUsage - amount

\* billableUsage = max(0, totalUsage-matchingItem.Amount)
BillableUsage(totalUsage, amount) == Max(0, totalUsage - amount)

NilEstimate == [isNil |-> TRUE]

\* The handler from the free-tier block on, for a rate r: lookedUp tells
\* whether GetFreeTier was called, info and lookupErr are what it returned.
\* The price per unit is kept as the quotient cost / per.
EstimateOutcome(input, r, lookedUp, info, lookupErr) ==
    LET totalUsage   == input.UsageAmount
        matchingItem == IF lookedUp /\ lookupErr = "" /\ info # NilInfo
                        THEN FindMatchingFreeTierItem(info, r.UnitInfo.Unit)
                        ELSE NilItem
        applied      == IF matchingItem # NilItem
                        THEN FreeTierApplied(totalUsage, matchingItem.Amount)
                        ELSE 0
        billable     == IF matchingItem # NilItem
                        THEN BillableUsage(totalUsage, matchingItem.Amount)
                        ELSE totalUsage
        calc         == CalculateCost(r, billable)
    IN  IF calc.err
        THEN [err |-> "failed to calculate cost", estimate |-> NilEstimate]
        ELSE [err |-> "",
              estimate |->
                [UsageAmount |-> totalUsage,
                 EstimatedCost |-> calc.cost,
                 Unit |-> r.UnitInfo.Unit,
                 NumberOfTiers |-> Len(r.Tiers),
                 TieredPricing |-> Len(r.Tiers) > 1,
                 ServiceName |-> input.ServiceName,
                 TotalUsage |-> totalUsage,
                 FreeTierApplied |-> applied,
                 BillableUsage |-> billable,
                 FreeTierSourceURL |-> IF matchingItem # NilItem
                                       THEN info.SourceURL ELSE "",
                 PricePerUnit |->
                   IF billable > 0
                   THEN [cost |-> calc.cost, per |-> billable]
                   ELSE IF Len(r.Tiers) > 0
                   THEN [cost |-> [units |-> 0,
                                   nanos |-> r.Tiers[1].ListPrice.Nanos],
                         per |-> 1]
                   ELSE [cost |-> ZeroCost, per |-> 1]]]

\* A handler that gives up when the free-tier lookup comes back empty-handed.
EstimateCostFinishMutNeedsFreeTier(input, r, lookedUp, info, lookupErr) ==
    IF lookedUp /\ (lookupErr # "" \/ info = NilInfo)
    THEN [err |-> "no free tier", estimate |-> NilEstimate]
    ELSE EstimateOutcome(input, r, lookedUp, info, lookupErr)

\* The handler from the free-tier block to its return.
EstimateCostFinish(input, r, lookedUp, info, lookupErr) ==
    EstimateOutcome(input, r, lookedUp, info, lookupErr)

---------------------------------------------------------------------------
(* freetier: the service and its callers *)

\* The concurrent callers of the service, and the one caller of the
\* estimate_cost handler.
Procs == {"p1", "p2"}
EstProcs == {"e1"}
AllProcs == Procs \cup EstProcs
NoProc == "none"

\* A nil *CachedFreeTier: no address.
NilEntry == 0

EmptyCache == [k \in {} |-> NilEntry]

NoReturn == [returned |-> FALSE]
NoInput == [given |-> FALSE]

\* A caller's locals: those of the service's methods, the handler's input,
\* rate and output, and the number of search calls and document fetches the
\* call has issued.
IdleLoc ==
    [op |-> "", serviceName |-> "", cacheKey |-> "", cached |-> NilEntry,
     exists |-> FALSE, freeTier |-> NilInfo, ret |-> NoReturn,
     input |-> NoInput, skuRate |-> NilRate, out |-> NoReturn,
     searches |-> 0, fetches |-> 0]

ServiceNames == {"Cloud Run", " cloud run", "BigQuery"}

vCPUSeconds == FreeTierItem("vCPU-seconds", 2, "seconds")
GiBSeconds == FreeTierItem("GiB-seconds", 3, "seconds")

\* Texts a documentation page can come back as: one whose pricing section
\* already names an allowance, the whole text naming one more and an account
\* cue the section lacks; one that names an allowance, "per project" and a
\* day cue only outside that section; and one that names none.
TextSection == Text(<<vCPUSeconds>>, <<vCPUSeconds, GiBSeconds>>,
                    "account", "month", "project", "month")
TextFullOnly == Text(<<>>, <<GiBSeconds>>, "project", "day", "account", "always")
TextNone == Text(<<>>, <<>>, "account", "month", "account", "month")

NetAnswers ==
    { NetAnswer("transport_error", NoText), NetAnswer("bad_status", NoText),
      NetAnswer("ok", TextSection), NetAnswer("ok", TextFullOnly),
      NetAnswer("ok", TextNone) }

Nets == [1..SearchLimit -> NetAnswers]

\* Answers of the search API: a failure; a documentation page and a pricing
\* page on the trusted host; an address that only mentions the trusted host;
\* and a lone page that is no pricing page.
Responses ==
    { DDGResponse("transport_error", "", <<>>),
      DDGResponse("ok", "https://cloud.google.com/run/docs",
                  <<Topic("https://cloud.google.com/run/pricing",
                          "Cloud Run pricing - Google Cloud")>>),
      DDGResponse("ok", "",
                  <<Topic("https://example.com/?q=cloud.google.com/pricing",
                          "Pricing")>>),
      DDGResponse("ok", "https://cloud.google.com/run/docs", <<>>) }

\* The service names callers pass, each with its cache key.
EstServiceNames == {"", "Cloud Run"}
CacheKeys ==
    [name \in ServiceNames \cup EstServiceNames |-> normalizeServiceName(name)]

\* Everything fetchFreeTierFromDocs can return for a service name, over the
\* answers of the search API and of the network.
Resolutions ==
    [name \in ServiceNames |->
       {fetchFreeTierFromDocs(name, resp, net) : resp \in Responses, net \in Nets}]

\* The same with one document on every page and a failing search API, which
\* is all the concurrent callers of the cache are told apart by: a resolution
\* that fails on the network, one that finds no allowance, one that succeeds.
UniformNets ==
    {[i \in 1..SearchLimit |-> a] :
        a \in { NetAnswer("transport_error", NoText), NetAnswer("ok", TextSection),
                NetAnswer("ok", TextNone) }}

UniformResolutions ==
    [name \in ServiceNames |->
       {fetchFreeTierFromDocs(name, DDGResponse("transport_error", "", <<>>), net) :
          net \in UniformNets}]

\* The resolutions caller p is given to choose from.
ResolutionsOf(p) == IF p \in Procs THEN UniformResolutions ELSE Resolutions

InitService ==
    /\ cache = EmptyCache
    /\ entries = <<>>
    /\ mu = [writer |-> NoProc, readers |-> {}]
    /\ now = 0
    /\ pc = [p \in AllProcs |-> "idle"]
    /\ loc = [p \in AllProcs |-> IdleLoc]
    /\ calls = 0

\* A caller starts GetFreeTier(serviceName):
\* cacheKey := normalizeServiceName(serviceName); s.cacheMutex.RLock()
GF_RLock(p) ==
    /\ pc[p] = "idle"
    /\ calls < MaxCalls
    /\ mu.writer = NoProc
    /\ \E name \in ServiceNames :
         loc' = [loc EXCEPT ![p] = [IdleLoc EXCEPT !.op = "GetFreeTier",
                                       !.serviceName = name,
                                       !.cacheKey = CacheKeys[name]]]
    /\ mu' = [mu EXCEPT !.readers = @ \cup {p}]
    /\ pc' = [pc EXCEPT ![p] = "gf_read"]
    /\ calls' = calls + 1
    /\ UNCHANGED <<cache, entries, now, pureVars>>

\* Where a finished GetFreeTier returns to: into the handler, or to the
\* caller.
AfterGetFreeTier(p) ==
    IF loc[p].op = "estimate_cost" THEN "ec_finish" ELSE "done"

\* GetFreeTier: cached, exists := s.cache[cacheKey]; s.cacheMutex.RUnlock()
GF_Read(p) ==
    /\ pc[p] = "gf_read"
    /\ LET key == loc[p].cacheKey
       IN  loc' = [loc EXCEPT ![p].exists = key \in DOMAIN cache,
                              ![p].cached = IF key \in DOMAIN cache
                                            THEN cache[key] ELSE NilEntry]
    /\ mu' = [mu EXCEPT !.readers = @ \ {p}]
    /\ pc' = [pc EXCEPT ![p] = "gf_check"]
    /\ UNCHANGED <<cache, entries, now, calls, pureVars>>

\* A check that never trusts the entry it read and resolves again.
GF_CheckMutAlwaysMiss(p) ==
    /\ pc[p] = "gf_check"
    /\ pc' = [pc EXCEPT ![p] = "gf_fetch"]
    /\ UNCHANGED <<loc, cache, entries, mu, now, calls, pureVars>>

\* GetFreeTier: if exists && !cached.IsExpired() { return cached.Info, nil }
GF_Check(p) ==
    /\ pc[p] = "gf_check"
    /\ IF loc[p].exists /\ ~IsExpired(entries[loc[p].cached], now)
       THEN /\ loc' = [loc EXCEPT ![p].ret =
                        [returned |-> TRUE, info |-> entries[loc[p].cached].Info,
                         err |-> ""]]
            /\ pc' = [pc EXCEPT ![p] = AfterGetFreeTier(p)]
       ELSE /\ pc' = [pc EXCEPT ![p] = "gf_fetch"]
            /\ loc' = loc
    /\ UNCHANGED <<cache, entries, mu, now, calls, pureVars>>

\* A miss that hands the resolver's error on to the caller.
FetchFailureReturnMutPropagate(r) ==
    [returned |-> TRUE, info |-> NilInfo, err |-> r.err]

\* GetFreeTier when the resolver r failed: return nil, nil
FetchFailureReturn(r) ==
    [returned |-> TRUE, info |-> NilInfo, err |-> ""]

\* GetFreeTier: freeTier, err := s.fetchFreeTierFromDocs(ctx, serviceName);
\* if err != nil { return nil, nil }
GF_Fetch(p) ==
    /\ pc[p] = "gf_fetch"
    /\ \E r \in ResolutionsOf(p)[loc[p].serviceName] :
             IF r.err # ""
             THEN /\ loc' = [loc EXCEPT ![p].ret = FetchFailureReturn(r),
                             ![p].searches = r.searches,
                             ![p].fetches = Len(r.fetched)]
                  /\ pc' = [pc EXCEPT ![p] = AfterGetFreeTier(p)]
             ELSE /\ loc' = [loc EXCEPT ![p].freeTier = r.info,
                             ![p].searches = r.searches,
                             ![p].fetches = Len(r.fetched)]
                  /\ pc' = [pc EXCEPT ![p] = "gf_lock"]
    /\ UNCHANGED <<cache, entries, mu, now, calls, pureVars>>

\* GetFreeTier: s.cacheMutex.Lock()
GF_Lock(p) ==
    /\ pc[p] = "gf_lock"
    /\ mu.writer = NoProc /\ mu.readers = {}
    /\ mu' = [mu EXCEPT !.writer = p]
    /\ pc' = [pc EXCEPT ![p] = "gf_store"]
    /\ UNCHANGED <<cache, entries, now, loc, calls, pureVars>>

\* A store that leaves the entry another call has stored in the meantime.
GF_StoreMutKeepsFirst(p) ==
    /\ pc[p] = "gf_store"
    /\ IF loc[p].cacheKey \in DOMAIN cache /\ cache[loc[p].cacheKey] # loc[p].cached
       THEN UNCHANGED <<cache, entries>>
       ELSE /\ entries' = Append(entries,
                            CachedFreeTier(loc[p].freeTier, now, now + cacheTTL))
            /\ cache' = [k \in DOMAIN cache \cup {loc[p].cacheKey} |->
                          IF k = loc[p].cacheKey THEN Len(entries) + 1 ELSE cache[k]]
    /\ mu' = [mu EXCEPT !.writer = NoProc]
    /\ loc' = [loc EXCEPT ![p].ret =
                 [returned |-> TRUE, info |-> loc[p].freeTier, err |-> ""]]
    /\ pc' = [pc EXCEPT ![p] = AfterGetFreeTier(p)]
    /\ UNCHANGED <<now, calls, pureVars>>

\* GetFreeTier: s.cache[cacheKey] = &CachedFreeTier{...};
\* s.cacheMutex.Unlock(); return freeTier, nil
GF_Store(p) ==
    /\ pc[p] = "gf_store"
    /\ entries' = Append(entries,
                         CachedFreeTier(loc[p].freeTier, now, now + cacheTTL))
    /\ cache' = [k \in DOMAIN cache \cup {loc[p].cacheKey} |->
                   IF k = loc[p].cacheKey THEN Len(entries) + 1 ELSE cache[k]]
    /\ mu' = [mu EXCEPT !.writer = NoProc]
    /\ loc' = [loc EXCEPT ![p].ret =
                 [returned |-> TRUE, info |-> loc[p].freeTier, err |-> ""]]
    /\ pc' = [pc EXCEPT ![p] = AfterGetFreeTier(p)]
    /\ UNCHANGED <<now, calls, pureVars>>

\* ClearCache that goes on to the map without taking the lock.
CC_LockMutNoLock(p) ==
    /\ pc[p] = "idle"
    /\ calls < MaxCalls
    /\ loc' = [loc EXCEPT ![p] = [IdleLoc EXCEPT !.op = "ClearCache"]]
    /\ pc' = [pc EXCEPT ![p] = "cc_clear"]
    /\ calls' = calls + 1
    /\ UNCHANGED <<mu, cache, entries, now, pureVars>>

\* A caller starts ClearCache(): s.cacheMutex.Lock()
CC_Lock(p) ==
    /\ pc[p] = "idle"
    /\ calls < MaxCalls
    /\ mu.writer = NoProc /\ mu.readers = {}
    /\ loc' = [loc EXCEPT ![p] = [IdleLoc EXCEPT !.op = "ClearCache"]]
    /\ mu' = [mu EXCEPT !.writer = p]
    /\ pc' = [pc EXCEPT ![p] = "cc_clear"]
    /\ calls' = calls + 1
    /\ UNCHANGED <<cache, entries, now, pureVars>>

\* A ClearCache that also ends the calls that are resolving, with no record.
CC_ClearMutCancelsPending(p) ==
    /\ pc[p] = "cc_clear"
    /\ cache' = EmptyCache
    /\ mu' = [mu EXCEPT !.writer = NoProc]
    /\ loc' = [q \in DOMAIN loc |->
                 IF q = p THEN [loc[q] EXCEPT !.ret = [returned |-> TRUE]]
                 ELSE IF pc[q] \in {"gf_fetch", "gf_lock"}
                 THEN [loc[q] EXCEPT !.ret = [returned |-> TRUE,
                                              info |-> NilInfo, err |-> ""]]
                 ELSE loc[q]]
    /\ pc' = [q \in DOMAIN pc |->
                IF q = p \/ pc[q] \in {"gf_fetch", "gf_lock"}
                THEN "done" ELSE pc[q]]
    /\ UNCHANGED <<entries, now, calls, pureVars>>

\* ClearCache: s.cache = make(map[string]*CachedFreeTier); deferred Unlock
CC_Clear(p) ==
    /\ pc[p] = "cc_clear"
    /\ cache' = EmptyCache
    /\ mu' = [mu EXCEPT !.writer = NoProc]
    /\ loc' = [loc EXCEPT ![p].ret = [returned |-> TRUE]]
    /\ pc' = [pc EXCEPT ![p] = "done"]
    /\ UNCHANGED <<entries, now, calls, pureVars>>

\* A caller starts ClearCacheEntry(serviceName):
\* cacheKey := normalizeServiceName(serviceName); s.cacheMutex.Lock()
CE_Lock(p) ==
    /\ pc[p] = "idle"
    /\ calls < MaxCalls
    /\ mu.writer = NoProc /\ mu.readers = {}
    /\ \E name \in ServiceNames :
         loc' = [loc EXCEPT ![p] = [IdleLoc EXCEPT !.op = "ClearCacheEntry",
                                       !.serviceName = name,
                                       !.cacheKey = CacheKeys[name]]]
    /\ mu' = [mu EXCEPT !.writer = p]
    /\ pc' = [pc EXCEPT ![p] = "ce_delete"]
    /\ calls' = calls + 1
    /\ UNCHANGED <<cache, entries, now, pureVars>>

\* A ClearCacheEntry that empties the whole map.
CE_DeleteMutClearsAll(p) ==
    /\ pc[p] = "ce_delete"
    /\ cache' = EmptyCache
    /\ mu' = [mu EXCEPT !.writer = NoProc]
    /\ loc' = [loc EXCEPT ![p].ret = [returned |-> TRUE]]
    /\ pc' = [pc EXCEPT ![p] = "done"]
    /\ UNCHANGED <<entries, now, calls, pureVars>>

\* ClearCacheEntry: delete(s.cache, cacheKey); deferred Unlock
CE_Delete(p) ==
    /\ pc[p] = "ce_delete"
    /\ cache' = [k \in DOMAIN cache \ {loc[p].cacheKey} |-> cache[k]]
    /\ mu' = [mu EXCEPT !.writer = NoProc]
    /\ loc' = [loc EXCEPT ![p].ret = [returned |-> TRUE]]
    /\ pc' = [pc EXCEPT ![p] = "done"]
    /\ UNCHANGED <<entries, now, calls, pureVars>>

\* A caller starts GetCacheStats(): s.cacheMutex.RLock()
GS_RLock(p) ==
    /\ pc[p] = "idle"
    /\ calls < MaxCalls
    /\ mu.writer = NoProc
    /\ loc' = [loc EXCEPT ![p] = [IdleLoc EXCEPT !.op = "GetCacheStats"]]
    /\ mu' = [mu EXCEPT !.readers = @ \cup {p}]
    /\ pc' = [pc EXCEPT ![p] = "gs_count"]
    /\ calls' = calls + 1
    /\ UNCHANGED <<cache, entries, now, pureVars>>

\* GetCacheStats: the counting loop, the returned map and the deferred RUnlock
GS_Count(p) ==
    /\ pc[p] = "gs_count"
    /\ LET expired == {k \in DOMAIN cache : IsExpired(entries[cache[k]], now)}
           valid   == DOMAIN cache \ expired
       IN  loc' = [loc EXCEPT ![p].ret =
                     [returned |-> TRUE,
                      total_entries |-> Cardinality(DOMAIN cache),
                      valid_entries |-> Cardinality(valid),
                      expired_entries |-> Cardinality(expired),
                      ttl_hours |-> cacheTTL]]
    /\ mu' = [mu EXCEPT !.readers = @ \ {p}]
    /\ pc' = [pc EXCEPT ![p] = "done"]
    /\ UNCHANGED <<cache, entries, now, calls, pureVars>>

\* The inputs of estimate_cost and the answers of GetSKUPrice.
SKUIDs == {"", "0008-F633-76AA"}
EstimateCostInputs ==
    {EstimateCostInput(id, u, name) :
       id \in SKUIDs, u \in (-1)..MaxUsage, name \in EstServiceNames}

EstTierLists ==
    { <<>>,
      <<Tier("0", "0", 100000000)>>,
      <<Tier("", "1", 500000000), Tier("2", "0", 100000000)>> }
EstUnits == {"s", "seconds", "h"}
PriceLookups ==
    { PriceLookup("error", NilRate), PriceLookup("no_prices", NilRate),
      PriceLookup("nil_rate", NilRate) }
    \cup {PriceLookup("ok", EstRate(t, u)) : t \in EstTierLists, u \in EstUnits}

\* The handler's checks before the free-tier block: the error it returns,
\* "" when it goes on.
Refusal(input, price) ==
    IF input.SKUID = "" THEN "sku_id is required"
    ELSE IF input.UsageAmount < 0 THEN "usage_amount must be non-negative"
    ELSE IF price.kind = "error" THEN "failed to get SKU price"
    ELSE IF price.kind \in {"no_prices", "nil_rate"}
    THEN "no pricing data found for SKU"
    ELSE ""

\* estimate_cost is called: the checks, the price lookup, and, when a
\* service name is given, the call of GetFreeTier up to its RLock.
EC_Start(p) ==
    /\ pc[p] = "idle"
    /\ calls < MaxCalls
    /\ \E input \in EstimateCostInputs, price \in PriceLookups :
         LET started == [IdleLoc EXCEPT !.op = "estimate_cost",
                                        !.input = input]
         IN  IF Refusal(input, price) # ""
             THEN /\ loc' = [loc EXCEPT ![p] =
                               [started EXCEPT !.out =
                                  [returned |-> TRUE,
                                   err |-> Refusal(input, price),
                                   estimate |-> NilEstimate]]]
                  /\ pc' = [pc EXCEPT ![p] = "done"]
                  /\ mu' = mu
             ELSE IF FreeTierServiceGiven /\ input.ServiceName # ""
             THEN /\ mu.writer = NoProc
                  /\ loc' = [loc EXCEPT ![p] =
                               [started EXCEPT
                                  !.skuRate = price.rate,
                                  !.serviceName = input.ServiceName,
                                  !.cacheKey =
                                     CacheKeys[input.ServiceName]]]
                  /\ mu' = [mu EXCEPT !.readers = @ \cup {p}]
                  /\ pc' = [pc EXCEPT ![p] = "gf_read"]
             ELSE /\ loc' = [loc EXCEPT ![p] =
                               [started EXCEPT !.skuRate = price.rate]]
                  /\ pc' = [pc EXCEPT ![p] = "ec_finish"]
                  /\ mu' = mu
    /\ calls' = calls + 1
    /\ UNCHANGED <<cache, entries, now, pureVars>>

\* estimate_cost: the free-tier deduction, CalculateCost and the output.
EC_Finish(p) ==
    /\ pc[p] = "ec_finish"
    /\ LET lookedUp == loc[p].ret.returned
           result == EstimateCostFinish(
                        loc[p].input, loc[p].skuRate, lookedUp,
                        IF lookedUp THEN loc[p].ret.info ELSE NilInfo,
                        IF lookedUp THEN loc[p].ret.err ELSE "")
       IN  loc' = [loc EXCEPT ![p].out =
                     [returned |-> TRUE, err |-> result.err,
                      estimate |-> result.estimate]]
    /\ pc' = [pc EXCEPT ![p] = "done"]
    /\ UNCHANGED <<cache, entries, mu, now, calls, pureVars>>

\* The call has returned to its caller, who is free to call again.
Return(p) ==
    /\ pc[p] = "done"
    /\ pc' = [pc EXCEPT ![p] = "idle"]
    /\ loc' = [loc EXCEPT ![p] = IdleLoc]
    /\ UNCHANGED <<cache, entries, mu, now, calls, pureVars>>

\* The clock's step: time is observed at multiples of the time-to-live.
TickHours == cacheTTL

\* Time passes.
Tick ==
    /\ now + TickHours <= MaxClock
    /\ now' = now + TickHours
    /\ UNCHANGED <<cache, entries, mu, pc, loc, calls, pureVars>>

\* An address by its components, and the string FetchAsText is handed.
Address(scheme, userinfo, host, path) ==
    [scheme |-> scheme, userinfo |-> userinfo, host |-> host, path |-> path]

URLString(u) == u.scheme \o "://" \o u.userinfo \o u.host \o u.path

NoAddress == Address("", "", "", "")

Init ==
    /\ InitService
    /\ rate = NilRate /\ usageAmount = 0 /\ calcResult = NoResult
    /\ address = NoAddress /\ fetchResult = NoResult
    /\ call = NoCall /\ returned = NoResult

Next ==
    \/ \E p \in Procs :
         \/ GF_RLock(p) \/ GF_Read(p) \/ GF_Check(p)
         \/ GF_Fetch(p) \/ GF_Lock(p) \/ GF_Store(p)
         \/ CC_Lock(p) \/ CC_Clear(p)
         \/ CE_Lock(p) \/ CE_Delete(p)
         \/ GS_RLock(p) \/ GS_Count(p)
         \/ Return(p)
    \/ Tick

Spec == Init /\ [][Next]_vars

\* One caller at a time: estimate_cost and GetFreeTier called in sequence,
\* with every answer of the price lookup, the search API and the network.
NextEstimate ==
    \/ \E p \in EstProcs :
         \/ EC_Start(p) \/ EC_Finish(p)
         \/ GF_Read(p) \/ GF_Check(p)
         \/ GF_Fetch(p) \/ GF_Lock(p) \/ GF_Store(p)
         \/ Return(p)
    \/ Tick

SpecEstimate == Init /\ [][NextEstimate]_vars

---------------------------------------------------------------------------
(* The calculator on its own: every rate table and usage within the bounds *)

InitCalc ==
    /\ rate \in Rates \cup {NilRate}
    /\ usageAmount \in 0..MaxUsage
    /\ calcResult = NoResult
    /\ address = NoAddress /\ fetchResult = NoResult
    /\ call = NoCall /\ returned = NoResult
    /\ InitService

CalculateCostCall ==
    /\ calcResult = NoResult
    /\ calcResult' = CalculateCost(rate, usageAmount)
    /\ UNCHANGED <<rate, usageAmount, fetchVars, callVars>>
    /\ UNCHANGED svcVars

NextCalc == CalculateCostCall

SpecCalc == InitCalc /\ [][NextCalc]_vars

---------------------------------------------------------------------------
(* The document fetcher on its own: addresses of every make *)

Schemes == {"https", "http", "ftp"}
UserInfos == {"", "cloud.google.com@"}
Hosts == {"cloud.google.com", "cloud.google.com.evil.example",
          "cloud.google.community", "docs.cloud.google.com", "example.com"}
Paths == {"", "/", "/run/pricing", "/?q=https://cloud.google.com"}

Addresses ==
    {Address(s, u, h, p) : s \in Schemes, u \in UserInfos, h \in Hosts, p \in Paths}

InitFetch ==
    /\ address \in Addresses
    /\ fetchResult = NoResult
    /\ rate = NilRate /\ usageAmount = 0 /\ calcResult = NoResult
    /\ call = NoCall /\ returned = NoResult
    /\ InitService

FetchAsTextCall ==
    /\ fetchResult = NoResult
    /\ \E net \in NetAnswers :
         fetchResult' = FetchAsText(URLString(address), net)
    /\ UNCHANGED <<address, calcVars, callVars>>
    /\ UNCHANGED svcVars

NextFetch == FetchAsTextCall

SpecFetch == InitFetch /\ [][NextFetch]_vars

---------------------------------------------------------------------------
(* The search client on its own: queries, limits and answers of the API *)

Queries ==
    { "site:cloud.google.com Cloud Run pricing",
      "site:cloud.google.com BigQuery pricing",
      "site:cloud.google.com pricing",
      "my_service free tier" }

Limits == 0..MaxLimit

\* Answers of the search API beyond Responses: the other failures, an answer
\* without addresses, one whose abstract is off the trusted host, and one with
\* more topics than any limit.
SearchAnswers ==
    Responses \cup
    { DDGResponse("bad_status", "", <<>>),
      DDGResponse("bad_body", "", <<>>),
      DDGResponse("ok", "", <<>>),
      DDGResponse("ok", "https://example.com/run", <<Topic("", "Pricing")>>),
      DDGResponse("ok", "",
                  <<Topic("https://cloud.google.com/run/pricing", "Pricing - Run"),
                    Topic("https://example.com/run", "Elsewhere"),
                    Topic("https://cloud.google.com/run/docs", "Docs"),
                    Topic("https://cloud.google.com/run", "Cloud Run"),
                    Topic("https://cloud.google.com/products", "Products")>>) }

SearchCalls ==
    {[fn |-> "Search", query |-> q, limit |-> l, resp |-> r] :
       q \in Queries, l \in Limits, r \in SearchAnswers}

\* The rest of the state while a pure function is called.
InitIdle ==
    /\ rate = NilRate /\ usageAmount = 0 /\ calcResult = NoResult
    /\ address = NoAddress /\ fetchResult = NoResult
    /\ InitService

InitSearch ==
    /\ call \in SearchCalls
    /\ returned = NoResult
    /\ InitIdle

SearchCall ==
    /\ call.fn = "Search"
    /\ returned = NoResult
    /\ returned' = Search(call.query, call.limit, call.resp)
    /\ UNCHANGED <<call, calcVars, fetchVars>>
    /\ UNCHANGED svcVars

NextSearch == SearchCall

SpecSearch == InitSearch /\ [][NextSearch]_vars

---------------------------------------------------------------------------
(* generatePricingURLs on its own: the table's keys, their spellings with *)
(* underscores, and names the table does not know                        *)

URLNames ==
    DOMAIN urlMappings
    \cup {ReplaceAll(k, " ", "_") : k \in DOMAIN urlMappings}
    \cup { "Cloud Run", "BigQuery", "GKE", "Pub/Sub", "Vertex AI", "Cloud CDN",
           "my-custom-service", "my custom_service", "dataflow", "" }

URLCalls == {[fn |-> "generatePricingURLs", serviceName |-> n] : n \in URLNames}

InitURLs ==
    /\ call \in URLCalls
    /\ returned = NoResult
    /\ InitIdle

GeneratePricingURLsCall ==
    /\ call.fn = "generatePricingURLs"
    /\ returned = NoResult
    /\ returned' = [urls |-> generatePricingURLs(call.serviceName)]
    /\ UNCHANGED <<call, calcVars, fetchVars>>
    /\ UNCHANGED svcVars

NextURLs == GeneratePricingURLsCall

SpecURLs == InitURLs /\ [][NextURLs]_vars

---------------------------------------------------------------------------
(* The classifiers on their own: texts made of cue phrases *)

\* The phrases a text of the model is made of, in the spellings documents
\* use, and one without any cue.
Phrases ==
    << "50,000 reads Per Day", "billed Daily", "1 TB/month", "free per month",
       "Always Free", "per project", "Per Account", "per billing account",
       "shared across all projects", "5 GB of storage" >>

RECURSIVE PhraseLists(_)
PhraseLists(n) ==
    IF n = 0 THEN {<<>>}
    ELSE PhraseLists(n - 1)
         \cup {Append(l, i) : l \in {m \in PhraseLists(n - 1) : Len(m) = n - 1},
                              i \in 1..Len(Phrases)}

\* The phrases of a list, one to a sentence.
RECURSIVE Join(_)
Join(l) ==
    IF Len(l) = 0 THEN ""
    ELSE Phrases[l[1]] \o (IF Len(l) = 1 THEN "." ELSE ". " \o Join(Tail(l)))

\* A text is kept with the list of phrases it was made of.
ClassifyCalls ==
    {[fn |-> "classify", phrases |-> l, content |-> Join(l)] :
       l \in PhraseLists(MaxPhrases)}

InitClassify ==
    /\ call \in ClassifyCalls
    /\ returned = NoResult
    /\ InitIdle

\* What the two classifiers have returned so far, "" before the call.
Classified == IF returned = NoResult THEN [scope |-> "", period |-> ""] ELSE returned

ExtractScopeCall ==
    /\ call.fn = "classify"
    /\ Classified.scope = ""
    /\ returned' = [Classified EXCEPT !.scope = ExtractScope(call.content)]
    /\ UNCHANGED <<call, calcVars, fetchVars>>
    /\ UNCHANGED svcVars

ExtractPeriodCall ==
    /\ call.fn = "classify"
    /\ Classified.period = ""
    /\ returned' = [Classified EXCEPT !.period = ExtractPeriod(call.content)]
    /\ UNCHANGED <<call, calcVars, fetchVars>>
    /\ UNCHANGED svcVars

NextClassify == ExtractScopeCall \/ ExtractPeriodCall

SpecClassify == InitClassify /\ [][NextClassify]_vars

---------------------------------------------------------------------------
(* The extractor on its own: texts of up to MaxMatches rule matches *)

\* Amount texts of each character class: with and without thousands
\* separators, with and without a point, and ones that are no number.
Captures ==
    [class \in {"[0-9,]+", "[0-9.]+", "\\d+"} |->
       CASE class = "[0-9,]+" -> {"2,000", "2000", "2", ","}
         [] class = "[0-9.]+" -> {"2", "2.0", "1.2.3"}
         [] class = "\\d+" -> {"6", "06"}]

\* The rules the texts of the model match: pairs of rules for one resource,
\* the "million" rule, and the rule that takes digits only.
MatchedRules == {1, 3, 5, 6, 7, 8, 12}

Matches ==
    UNION {{Match(p, a) : a \in Captures[freeTierPatterns[p].Amount]} :
             p \in MatchedRules}

RECURSIVE MatchLists(_)
MatchLists(n) ==
    IF n = 0 THEN {<<>>}
    ELSE MatchLists(n - 1)
         \cup {Append(l, m) : l \in {k \in MatchLists(n - 1) : Len(k) = n - 1},
                              m \in Matches}

ExtractCalls ==
    {[fn |-> "ExtractFreeTierItems", content |-> l] : l \in MatchLists(MaxMatches)}

InitExtract ==
    /\ call \in ExtractCalls
    /\ returned = NoResult
    /\ InitIdle

ExtractFreeTierItemsCall ==
    /\ call.fn = "ExtractFreeTierItems"
    /\ returned = NoResult
    /\ returned' = [items |-> ExtractFreeTierItems(call.content)]
    /\ UNCHANGED <<call, calcVars, fetchVars>>
    /\ UNCHANGED svcVars

NextExtract == ExtractFreeTierItemsCall

SpecExtract == InitExtract /\ [][NextExtract]_vars

---------------------------------------------------------------------------
(* FindMatchingFreeTierItem on its own: records of up to MaxItems items *)

\* Items as the extractor and the tests build them, one with a resource label
\* in capitals and one whose label only contains a candidate.
CatalogueItems ==
    {FreeTierItem("vCPU-seconds", 240000, "seconds"),
     FreeTierItem("GiB-seconds", 450000, "seconds"),
     FreeTierItem("storage", 5, "GiB"),
     FreeTierItem("Requests", 2000000, "count"),
     FreeTierItem("build-minutes", 120, "minutes"),
     FreeTierItem("access-operations", 10000, "Count")}

RECURSIVE ItemLists(_)
ItemLists(n) ==
    IF n = 0 THEN {<<>>}
    ELSE ItemLists(n - 1)
         \cup {Append(l, m) : l \in {k \in ItemLists(n - 1) : Len(k) = n - 1},
                              m \in CatalogueItems}

\* Usage units of the mapping table and units it does not hold.
UsageUnits == {"s", "GiBy", "count", "1", "h", "MINUTES", "gib", "unknown"}

MatchCalls ==
    {[fn |-> "FindMatchingFreeTierItem", freeTier |-> f, usageUnit |-> u] :
       f \in {NilInfo}
              \cup {FreeTierInfo("Cloud Run", l, "account", "month",
                                 "https://cloud.google.com/run/pricing") :
                      l \in ItemLists(MaxItems)},
       u \in UsageUnits}

InitMatch ==
    /\ call \in MatchCalls
    /\ returned = NoResult
    /\ InitIdle

FindMatchingFreeTierItemCall ==
    /\ call.fn = "FindMatchingFreeTierItem"
    /\ returned = NoResult
    /\ returned' = [item |-> FindMatchingFreeTierItem(call.freeTier,
                                                      call.usageUnit)]
    /\ UNCHANGED <<call, calcVars, fetchVars>>
    /\ UNCHANGED svcVars

NextMatch == FindMatchingFreeTierItemCall

SpecMatch == InitMatch /\ [][NextMatch]_vars

---------------------------------------------------------------------------
(* ExtractPricingSection on its own: texts of up to MaxPieces pieces *)

\* Marker words in the letter cases pages use, stretches of ASCII text of
\* several lengths, and stretches of letters whose lower-case form is longer
\* (300 times U+023A) or shorter (100 times U+212A) than they are.
Pieces ==
    {Word("Pricing"), Word("ALWAYS FREE")}
    \cup {Piece("", n, n) : n \in {100, 300, 6000}}
    \cup {Piece("", 600, 900), Piece("", 300, 100)}

RECURSIVE PieceLists(_)
PieceLists(n) ==
    IF n = 0 THEN {<<>>}
    ELSE PieceLists(n - 1)
         \cup {Append(l, m) : l \in {k \in PieceLists(n - 1) : Len(k) = n - 1},
                              m \in Pieces}

SectionCalls ==
    {[fn |-> "ExtractPricingSection", content |-> l] : l \in PieceLists(MaxPieces)}

InitSection ==
    /\ call \in SectionCalls
    /\ returned = NoResult
    /\ InitIdle

ExtractPricingSectionCall ==
    /\ call.fn = "ExtractPricingSection"
    /\ returned = NoResult
    /\ returned' = ExtractPricingSection(call.content)
    /\ UNCHANGED <<call, calcVars, fetchVars>>
    /\ UNCHANGED svcVars

NextSection == ExtractPricingSectionCall

SpecSection == InitSection /\ [][NextSection]_vars

---------------------------------------------------------------------------
(* The resolver on its own: every answer of the search API and the network *)

\* Answers of the search API with three candidates: a pricing page, a page
\* that is none by address or title, and a page that is one by its title only.
ResolveResponses ==
    Responses
    \cup { DDGResponse("ok", "",
                       <<Topic("https://cloud.google.com/run/pricing",
                               "Cloud Run pricing - Google Cloud"),
                         Topic("https://cloud.google.com/run/docs/quotas",
                               "Quotas - Google Cloud"),
                         Topic("https://cloud.google.com/free/docs/free-cloud-features",
                               "Free tier and Pricing overview")>>) }

ResolveCalls ==
    {[fn |-> "fetchFreeTierFromDocs", serviceName |-> name, resp |-> resp,
      net |-> net] :
       name \in {"Cloud Run", "BigQuery"}, resp \in ResolveResponses, net \in Nets}

InitResolve ==
    /\ call \in ResolveCalls
    /\ returned = NoResult
    /\ InitIdle

FetchFreeTierFromDocsCall ==
    /\ call.fn = "fetchFreeTierFromDocs"
    /\ returned = NoResult
    /\ returned' = fetchFreeTierFromDocs(call.serviceName, call.resp, call.net)
    /\ UNCHANGED <<call, calcVars, fetchVars>>
    /\ UNCHANGED svcVars

NextResolve == FetchFreeTierFromDocsCall

SpecResolve == InitResolve /\ [][NextResolve]_vars

---------------------------------------------------------------------------
(* Claims about CalculateCost, checked under SpecCalc *)

Returned == calcResult # NoResult

\* The start thresholds of a rate table, as numbers.
StartOf(r, i) == ParseFloat(r.Tiers[i].StartAmount.Value)

StrictlyIncreasing(r) ==
    \A i \in 1..(Len(r.Tiers) - 1) : StartOf(r, i) < StartOf(r, i + 1)

\* What the tiers are to bill by the stated rule: tier i gets
\* min(usage still unbilled, start_{i+1} - start_i), the last tier the rest.
RECURSIVE TieredQuantities(_, _, _)
TieredQuantities(r, i, unbilled) ==
    IF i > Len(r.Tiers) THEN <<>>
    ELSE LET q == IF i = Len(r.Tiers) THEN unbilled
                  ELSE Min(unbilled, StartOf(r, i + 1) - StartOf(r, i))
         IN  <<q>> \o TieredQuantities(r, i + 1, unbilled - q)

\* price_i * q_i summed over the tiers, price_i = units_i + nanos_i/1e9.
RECURSIVE TieredSum(_, _, _)
TieredSum(r, q, i) ==
    IF i > Len(r.Tiers) THEN ZeroCost
    ELSE CostAdd(CostTimes(q[i], ParseFloat(r.Tiers[i].ListPrice.Units),
                           r.Tiers[i].ListPrice.Nanos),
                 TieredSum(r, q, i + 1))

TierPriceTimes(r, i, q) ==
    CostTimes(q, ParseFloat(r.Tiers[i].ListPrice.Units), r.Tiers[i].ListPrice.Nanos)

\* C1: for a non-empty rate table with strictly increasing start thresholds
\* and any usage u >= 0, CalculateCost returns no error and the sum over the
\* tiers of price_i * q_i, q_i = min(usage still unbilled, start_{i+1} -
\* start_i), the last tier taking the rest; so one tier priced p costs u*p, two
\* tiers starting at 0 with boundary b cost b*p1 + (u-b)*p2 for u > b, and
\* u = 0 costs 0.
C1_TieredSum ==
    (Returned /\ rate # NilRate /\ Len(rate.Tiers) > 0 /\ StrictlyIncreasing(rate))
    => LET q == TieredQuantities(rate, 1, usageAmount)
           n == Len(rate.Tiers)
       IN  /\ ~calcResult.err
           /\ calcResult.billed = q
           /\ calcResult.cost = TieredSum(rate, q, 1)
           /\ n = 1 => calcResult.cost = TierPriceTimes(rate, 1, usageAmount)
           /\ (n = 2 /\ StartOf(rate, 1) = 0 /\ usageAmount > StartOf(rate, 2))
              => calcResult.cost =
                   CostAdd(TierPriceTimes(rate, 1, StartOf(rate, 2)),
                           TierPriceTimes(rate, 2, usageAmount - StartOf(rate, 2)))
           /\ usageAmount = 0 => calcResult.cost = ZeroCost

\* A three-tier table whose every tier, priced above zero, bills part of the usage.
C1_Witness ==
    /\ Returned /\ rate # NilRate /\ Len(rate.Tiers) = 3 /\ StrictlyIncreasing(rate)
    /\ ~calcResult.err
    /\ \A i \in 1..3 : calcResult.billed[i] > 0 /\ rate.Tiers[i].ListPrice.Units = "1"

\* C2: CalculateCost returns an error and no cost, pricing no tier, for every
\* usage when the rate is nil and when its tier list is empty.
C2_NilOrEmptyFails ==
    (Returned /\ (rate = NilRate \/ Len(rate.Tiers) = 0))
    => /\ calcResult.err
       /\ calcResult.cost = ZeroCost
       /\ calcResult.billed = <<>>

\* An empty tier list with positive usage has been refused.
C2_Witness ==
    /\ Returned /\ rate # NilRate /\ Len(rate.Tiers) = 0
    /\ usageAmount > 0 /\ calcResult.err

---------------------------------------------------------------------------
(* Claims about the free-tier service and the estimate_cost handler *)

\* Caller p is in, or has just left, GetFreeTier and holds what it returned.
GetFreeTierReturned(p) ==
    /\ loc[p].op \in {"GetFreeTier", "estimate_cost"}
    /\ loc[p].ret.returned

C4_AbsenceStored ==
    \A p \in EstProcs :
       (GetFreeTierReturned(p) /\ loc[p].searches = 1
          /\ loc[p].ret.info = NilInfo)
       => /\ loc[p].cacheKey \in DOMAIN cache
          /\ entries[cache[loc[p].cacheKey]].Info = NilInfo
          /\ ~IsExpired(entries[cache[loc[p].cacheKey]], now)

\* Caller p takes the step of GetFreeTier that starts at label l.
Steps(p, l) == pc[p] = l /\ pc'[p] # l

\* The cache lookup of p returns the entry stored under p's key.
C5_ReadsTheStoredEntry(p) ==
    (Steps(p, "gf_read") /\ CacheKeys[loc[p].serviceName] \in DOMAIN cache)
    => /\ loc'[p].exists
       /\ loc'[p].cached = cache[CacheKeys[loc[p].serviceName]]

\* An entry read before its expiry is returned as it is, with no search call
\* and no document fetch.
C5_ReturnsItUnresolved(p) ==
    (Steps(p, "gf_check") /\ loc[p].exists
       /\ now <= entries[loc[p].cached].ExpiresAt)
    => /\ loc'[p].ret.returned
       /\ loc'[p].ret.info = entries[loc[p].cached].Info
       /\ loc'[p].ret.err = ""
       /\ loc'[p].searches = 0 /\ loc'[p].fetches = 0
       /\ pc'[p] = "done"
       /\ UNCHANGED <<cache, entries>>

\* C5: once an entry is stored for a service key, every later GetFreeTier
\* call whose service name normalizes to that key and that runs before the
\* entry expires and before it is cleared returns that same stored record and
\* issues no search call and no document fetch.
C5_HitReturnsStored ==
    [][\A p \in Procs : C5_ReadsTheStoredEntry(p) /\ C5_ReturnsItUnresolved(p)]_vars

\* A call under another spelling of the service name has returned the record
\* stored for "Cloud Run" without resolving anything.
C5_Witness ==
    \E p \in Procs :
       /\ pc[p] = "done" /\ loc[p].op = "GetFreeTier"
       /\ loc[p].serviceName = " cloud run"
       /\ loc[p].exists
       /\ loc[p].ret.info # NilInfo
       /\ loc[p].ret.info.ServiceName = "Cloud Run"
       /\ loc[p].searches = 0 /\ loc[p].fetches = 0
       /\ now = entries[loc[p].cached].ExpiresAt

\* The check of p takes the entry for a miss exactly when there is none or
\* the time is strictly after its expiresAt.
C6_MissWhenExpired(p) ==
    Steps(p, "gf_check")
    => ((pc'[p] = "gf_fetch")
          <=> (~loc[p].exists \/ now > entries[loc[p].cached].ExpiresAt))

\* The store of p installs a newly built entry that expires the time-to-live
\* after the moment of the store.
C6_StoresFreshEntry(p) ==
    Steps(p, "gf_store")
    => LET id == cache'[loc[p].cacheKey]
       IN  /\ id \notin 1..Len(entries)
           /\ entries'[id].Info = loc[p].freeTier
           /\ entries'[id].CachedAt = now
           /\ entries'[id].ExpiresAt = now + 24
           /\ loc'[p].ret.info = loc[p].freeTier

\* C6: a cache entry reports expired exactly when the current time is
\* strictly after its expiresAt.  GetFreeTier treats an expired entry as a
\* miss: it resolves again and, on success, replaces the entry with a newly
\* built one whose expiresAt is the time-to-live (24 hours) after the moment
\* it is stored.
C6_StrictExpiry ==
    [][/\ \A id \in 1..Len(entries) :
            IsExpired(entries[id], now) <=> now > entries[id].ExpiresAt
       /\ \A p \in Procs : C6_MissWhenExpired(p) /\ C6_StoresFreshEntry(p)]_vars

\* A call has found its key's entry expired and has replaced it.
C6_Witness ==
    \E p \in Procs :
       /\ pc[p] = "done" /\ loc[p].op = "GetFreeTier"
       /\ loc[p].exists
       /\ entries[loc[p].cached].ExpiresAt < now
       /\ loc[p].cacheKey \in DOMAIN cache
       /\ cache[loc[p].cacheKey] # loc[p].cached
       /\ entries[cache[loc[p].cacheKey]].ExpiresAt = now + cacheTTL

\* The labels at which a caller reads the cache map, and writes it.
ReadLabels == {"gf_read", "gs_count"}
WriteLabels == {"gf_store", "cc_clear", "ce_delete"}

\* No read of the map, and no other write, while a write is in progress.
NoReadDuringWrite ==
    \A p, q \in Procs :
       (p # q /\ pc[p] \in WriteLabels) => pc[q] \notin ReadLabels \cup WriteLabels

\* Every key maps to one allocated entry that carries its record, cachedAt
\* and expiresAt; so does what a reader has taken out of the map.
EntriesComplete ==
    /\ \A k \in DOMAIN cache :
          /\ cache[k] \in 1..Len(entries)
          /\ DOMAIN entries[cache[k]] = {"Info", "CachedAt", "ExpiresAt"}
          /\ entries[cache[k]].ExpiresAt = entries[cache[k]].CachedAt + cacheTTL
    /\ \A p \in Procs :
          loc[p].exists => loc[p].cached \in 1..Len(entries)

\* C7: under every interleaving of concurrent GetFreeTier, ClearCache,
\* ClearCacheEntry and GetCacheStats calls, a service key maps to at most one
\* cache entry, every read of the cache map happens while no write to it is in
\* progress, a reader sees for a key no entry or one complete entry, and an
\* entry or record is never modified after it has been stored.
C7_ConcurrencySafe ==
    [][/\ NoReadDuringWrite' /\ EntriesComplete'
       /\ \A id \in 1..Len(entries) : entries'[id] = entries[id]]_vars

\* A writer waits for the lock while a reader holds it, with an entry in
\* the cache.
C7_Witness ==
    /\ pc["p1"] = "gf_lock" /\ pc["p2"] = "gs_count"
    /\ mu.readers = {"p2"}
    /\ DOMAIN cache # {}

\* estimate_cost has returned an estimate to p.
Estimated(p) ==
    /\ pc[p] = "done" /\ loc[p].op = "estimate_cost"
    /\ loc[p].out.err = ""

\* The free-tier item the handler of p has matched, NilItem if none.
Matched(p) ==
    IF loc[p].ret.returned /\ loc[p].ret.info # NilInfo
    THEN FindMatchingFreeTierItem(loc[p].ret.info, loc[p].skuRate.UnitInfo.Unit)
    ELSE NilItem

\* C8: when estimate_cost finds a free-tier item matching the usage unit,
\* with allowance a, for total usage t >= 0 it reports free_tier_applied =
\* min(t, a) and billable_usage = max(0, t - a), so that the two add up to t
\* and billable_usage >= 0, and the estimated cost is CalculateCost of
\* billable_usage, not of t; when no item matches, free_tier_applied = 0 and
\* billable_usage = t.
C8_Deduction ==
    \A p \in EstProcs :
       Estimated(p)
       => LET t   == loc[p].input.UsageAmount
              est == loc[p].out.estimate
          IN  /\ est.TotalUsage = t /\ t >= 0
              /\ Matched(p) # NilItem
                 => LET a == Matched(p).Amount
                    IN  /\ t <= a => (est.FreeTierApplied = t /\ est.BillableUsage = 0)
                        /\ t > a => (est.FreeTierApplied = a /\ est.BillableUsage = t - a)
              /\ Matched(p) = NilItem
                 => (est.FreeTierApplied = 0 /\ est.BillableUsage = t)
              /\ est.FreeTierApplied + est.BillableUsage = t
              /\ est.BillableUsage >= 0
              /\ est.EstimatedCost =
                   CalculateCost(loc[p].skuRate, est.BillableUsage).cost

\* Usage 4 against an allowance of 2: 2 applied, 2 billed, and the cost is
\* that of 2, not of 4.
C8_Witness ==
    \E p \in EstProcs :
       /\ Estimated(p)
       /\ Matched(p) # NilItem
       /\ loc[p].out.estimate.TotalUsage = 4
       /\ loc[p].out.estimate.FreeTierApplied = 2
       /\ loc[p].out.estimate.BillableUsage = 2
       /\ loc[p].out.estimate.EstimatedCost #
            CalculateCost(loc[p].skuRate, 4).cost

---------------------------------------------------------------------------
(* Claims about FetchAsText, checked under SpecFetch *)

\* C10: FetchAsText fails with an error, before any network request is
\* issued, for every address that does not belong to the allow-listed host:
\* an address is accepted only if its scheme is https and its host component
\* is exactly cloud.google.com.
C10_OnlyAllowListedHost ==
    (fetchResult # NoResult
       /\ ~(address.scheme = "https" /\ address.host = "cloud.google.com"))
    => (fetchResult.err # "" /\ ~fetchResult.requested)

---------------------------------------------------------------------------
(* Claims about the search client, checked under SpecSearch and SpecURLs *)

\* The host component of an address: what stands between "://" and the
\* first "/", "?" or "#", without any user information before an "@".
RECURSIVE UpToDelimiter(_)
UpToDelimiter(s) ==
    IF Len(s) = 0 \/ Char(s, 1) \in {"/", "?", "#"} THEN ""
    ELSE Char(s, 1) \o UpToDelimiter(SubSeq(s, 2, Len(s)))

HostOf(u) ==
    LET i         == Index(u, "://")
        rest      == IF i = 0 THEN u ELSE SubSeq(u, i + 3, Len(u))
        authority == UpToDelimiter(rest)
        at        == Index(authority, "@")
    IN  IF at = 0 THEN authority ELSE SubSeq(authority, at + 1, Len(authority))

OnTrustedHost(u) == HostOf(u) = "cloud.google.com"

\* The addresses of an answer of the search API.
AddressesOf(resp) ==
    {resp.AbstractURL} \cup
    {resp.RelatedTopics[i].FirstURL : i \in 1..Len(resp.RelatedTopics)}

\* The external search call failed or yielded no address on the trusted host.
SearchFailed(resp) ==
    resp.kind # "ok" \/ ~\E u \in AddressesOf(resp) : OnTrustedHost(u)

\* C11: Search never returns an error when the external search call fails:
\* on a transport error, a non-success status, an unreadable or unparsable
\* body, or zero addresses on the trusted host, it returns a nil error and the
\* deterministic fallback list, which for a query with a non-empty service
\* name and a limit >= 1 has at least one address.
C11_FallbackOnFailure ==
    (returned # NoResult /\ call.fn = "Search" /\ SearchFailed(call.resp))
    => /\ ~returned.err
       /\ returned.results = constructFallbackResults(call.query, call.limit)
       /\ (extractServiceName(call.query) # "" /\ call.limit >= 1)
          => Len(returned.results) >= 1

\* C12: for every limit >= 0 and every search response, the list Search
\* returns has at most limit entries, whether they come from the response
\* (abstract address plus related topics) or from the fallback construction.
C12_AtMostLimit ==
    (returned # NoResult /\ call.fn = "Search")
    => Len(returned.results) <= call.limit

\* The lowercased name with spaces and underscores replaced by hyphens.
Slug(name) == ReplaceAll(ReplaceAll(ToLower(name), " ", "-"), "_", "-")

\* C13: for every key of the static fallback table, generatePricingURLs of
\* that key returns exactly the table's path segments for the key, each
\* prefixed with https://cloud.google.com/, in table order; for every name
\* the table does not know it returns generic guesses of which the first is
\* https://cloud.google.com/{slug}/pricing.
C13_TableOrGeneric ==
    (returned # NoResult /\ call.fn = "generatePricingURLs")
    => LET name == call.serviceName
       IN  /\ name \in DOMAIN urlMappings
              => returned.urls =
                   [i \in 1..Len(urlMappings[name]) |->
                      "https://cloud.google.com/" \o urlMappings[name][i]]
           /\ (name \notin DOMAIN urlMappings /\ Slug(name) \notin DOMAIN urlMappings)
              => /\ Len(returned.urls) >= 1
                 /\ returned.urls[1] =
                      "https://cloud.google.com/" \o Slug(name) \o "/pricing"

---------------------------------------------------------------------------
(* Claims about the classifiers, checked under SpecClassify *)

\* The cues by the place of their phrase in Phrases.
DayCues == {1, 2}
MonthCues == {3, 4}
AlwaysCues == {5}
ProjectCues == {6}
AccountCues == {7, 8, 9}

\* How many phrases of the list l are cues of the set.
CueCount(l, cues) == Cardinality({i \in 1..Len(l) : l[i] \in cues})

\* ExtractPeriod has returned on the text of the call.
PeriodReturned ==
    call.fn = "classify" /\ returned # NoResult /\ returned.period # ""

\* C14: ExtractPeriod returns always for every text that contains "always
\* free", whatever day or month cues it also contains; otherwise it counts
\* day cues and month cues and returns day only when day cues strictly
\* outnumber month cues, and month in every other case, including equal
\* counts and no cues at all.
C14_PeriodByCount ==
    PeriodReturned
    => returned.period =
         IF CueCount(call.phrases, AlwaysCues) > 0 THEN "always"
         ELSE IF CueCount(call.phrases, DayCues) > CueCount(call.phrases, MonthCues)
         THEN "day"
         ELSE "month"

\* ExtractScope has returned on the text of the call.
ScopeReturned ==
    call.fn = "classify" /\ returned # NoResult /\ returned.scope # ""

\* C15: ExtractScope never fails and returns account for every text that
\* contains "per billing account", "per account" or "across all projects" in
\* any letter case, even when the text also contains "per project"; it
\* returns project only when no account cue is present and "per project" is;
\* and it returns account when no scope cue is present.
C15_ScopeAccountFirst ==
    ScopeReturned
    => returned.scope =
         IF CueCount(call.phrases, AccountCues) > 0 THEN "account"
         ELSE IF CueCount(call.phrases, ProjectCues) > 0 THEN "project"
         ELSE "account"

\* A text with "per project" and "Per Account" has been classified account.
C15_Witness ==
    /\ ScopeReturned
    /\ call.phrases = <<6, 7>>
    /\ returned.scope = "account"

---------------------------------------------------------------------------
(* Claims about ExtractFreeTierItems, checked under SpecExtract *)

\* The matches of a text with the rules in table order and the matches of
\* one rule in text order, from rule p on.
RECURSIVE InTableOrder(_, _)
InTableOrder(content, p) ==
    IF p > Len(freeTierPatterns) THEN <<>>
    ELSE LET OfRule(m) == m.rule = p
         IN  SelectSeq(content, OfRule) \o InTableOrder(content, p + 1)

ResourceOf(m) == freeTierPatterns[m.rule].Resource

\* The amount text of a match with its thousands separators removed.
Unseparated(m) == ReplaceAll(m.amount, ",", "")

Parses(m) == ~ParseFloatErr(Unseparated(m))

\* The item a match stands for.
ExpectedItem(m) ==
    LET million == freeTierPatterns[m.rule].Unit = "million"
        parsed  == ParseFloatValue(Unseparated(m))
    IN  [Resource |-> ResourceOf(m),
         Amount |-> IF million THEN parsed * 1000000 ELSE parsed,
         Unit |-> IF million THEN "count" ELSE freeTierPatterns[m.rule].Unit]

\* The items of the matches at the places js of the list ms, in order.
RECURSIVE ItemsAt(_, _, _)
ItemsAt(ms, js, j) ==
    IF j > Len(ms) THEN <<>>
    ELSE (IF j \in js THEN <<ExpectedItem(ms[j])>> ELSE <<>>)
         \o ItemsAt(ms, js, j + 1)

ExtractReturned == call.fn = "ExtractFreeTierItems" /\ returned # NoResult

\* C16, as claimed: over all rule matches in the text, a match is discarded
\* exactly when an earlier match (rules in table order, matches in text
\* order) has the same resource label and the same literal amount string; two
\* matches for one resource label whose amounts differ both appear.
C16_DropsSameLiteral ==
    ExtractReturned
    => LET ms   == InTableOrder(call.content, 1)
           kept == {j \in 1..Len(ms) :
                      /\ Parses(ms[j])
                      /\ ~\E i \in 1..(j - 1) :
                            /\ ResourceOf(ms[i]) = ResourceOf(ms[j])
                            /\ ms[i].amount = ms[j].amount}
       IN  returned.items = ItemsAt(ms, kept, 1)

\* C16, amended: a match whose amount parses is discarded exactly when an
\* earlier match (rules in table order, matches in text order) has the same
\* resource label and the same amount string once the thousands separators
\* are removed; two matches for one resource label whose amount strings still
\* differ then both appear.
C16_DropsSameAmountString ==
    ExtractReturned
    => LET ms   == InTableOrder(call.content, 1)
           kept == {j \in 1..Len(ms) :
                      /\ Parses(ms[j])
                      /\ ~\E i \in 1..(j - 1) :
                            /\ ResourceOf(ms[i]) = ResourceOf(ms[j])
                            /\ Unseparated(ms[i]) = Unseparated(ms[j])}
       IN  returned.items = ItemsAt(ms, kept, 1)

\* "2,000" and "2000" of one rule have given one item.
C16_Witness ==
    /\ ExtractReturned
    /\ call.content = <<Match(8, "2,000"), Match(8, "2000")>>
    /\ Len(returned.items) = 1

\* C17: for every match of a rule whose declared unit is "million" the
\* extractor stores the parsed amount times 1,000,000 with unit "count"; for
\* every match of any other rule it stores the parsed amount (thousands
\* separators removed) unchanged with the rule's declared unit; a match whose
\* amount text does not parse produces no item and no error.
C17_MillionScaled ==
    ExtractReturned
    => LET ms      == call.content
           parsing == {j \in 1..Len(ms) : Parses(ms[j])}
       IN  /\ \A k \in 1..Len(returned.items) :
                 \E j \in parsing : returned.items[k] = ExpectedItem(ms[j])
           /\ \A j \in parsing :
                 (\A i \in 1..Len(ms) :
                     i # j => ResourceOf(ms[i]) # ResourceOf(ms[j]))
                 => \E k \in 1..Len(returned.items) :
                       returned.items[k] = ExpectedItem(ms[j])
           /\ Len(returned.items) <= Cardinality(parsing)

\* "2 million" requests next to an amount that is no number: one item of
\* 2,000,000, unit count.
C17_Witness ==
    /\ ExtractReturned
    /\ call.content = <<Match(5, "1.2.3"), Match(7, "2")>>
    /\ returned.items = <<FreeTierItem("requests", 2000000, "count")>>

---------------------------------------------------------------------------
(* Claims about FindMatchingFreeTierItem, checked under SpecMatch *)

MatchReturned == call.fn = "FindMatchingFreeTierItem" /\ returned # NoResult

\* The items of the record handed in; an absent record has none.
ItemsOf(freeTier) == IF freeTier = NilInfo THEN <<>> ELSE freeTier.Items

\* Whether an item answers a usage unit: by its resource label for a unit of
\* the mapping table, by its stored unit otherwise.
Answers(item, usageUnit) ==
    IF usageUnit \in DOMAIN unitMapping
    THEN \E j \in 1..Len(unitMapping[usageUnit]) :
           Contains(ToLower(item.Resource), ToLower(unitMapping[usageUnit][j]))
    ELSE ToLower(item.Unit) = ToLower(usageUnit)

\* C18: FindMatchingFreeTierItem returns none for an absent record or a
\* record with no items; for a usage unit of the mapping table it returns the
\* first item, in record order, whose resource label contains
\* case-insensitively one of the unit's candidates; for any other usage unit
\* it returns the first item whose stored unit equals the usage unit
\* case-insensitively; it returns none when no item qualifies.
C18_FirstMatchingItem ==
    MatchReturned
    => LET items == ItemsOf(call.freeTier)
           u     == call.usageUnit
       IN  IF \A i \in 1..Len(items) : ~Answers(items[i], u)
           THEN returned.item = NilItem
           ELSE \E i \in 1..Len(items) :
                  /\ Answers(items[i], u)
                  /\ \A j \in 1..(i - 1) : ~Answers(items[j], u)
                  /\ returned.item = items[i]

\* A record holding vCPU-seconds then GiB-seconds, matched with unit "s", has
\* given the vCPU-seconds item.
C18_Witness ==
    /\ MatchReturned
    /\ call.usageUnit = "s"
    /\ call.freeTier # NilInfo
    /\ Len(call.freeTier.Items) = 2
    /\ call.freeTier.Items[1].Resource = "vCPU-seconds"
    /\ call.freeTier.Items[2].Resource = "GiB-seconds"
    /\ returned.item = FreeTierItem("vCPU-seconds", 240000, "seconds")

---------------------------------------------------------------------------
(* Claims about the records GetFreeTier returns, checked under SpecEstimate *)

\* A record whose items are those extracted from the document, the pricing
\* section's when it names any and the whole text's otherwise, and whose
\* source address is the address the document was fetched from.
ExtractedFrom(info, document) ==
    /\ document # NoDocument
    /\ document.answer.kind = "ok"
    /\ info.Items = IF Len(document.answer.text.pricingItems) = 0
                    THEN document.answer.text.fullItems
                    ELSE document.answer.text.pricingItems
    /\ info.SourceURL = document.URL

\* The resolutions that gave a record.
Resolved ==
    UNION {{r \in Resolutions[name] : r.err = ""} : name \in ServiceNames}

\* Every record a resolution gives was extracted from its document.
ResolvedFromDocument == \A r \in Resolved : ExtractedFrom(r.info, r.document)

\* The records callers hold as the result of GetFreeTier.
RecordsReturned ==
    {loc[p].ret.info : p \in {q \in AllProcs : GetFreeTierReturned(q)}}
    \ {NilInfo}

\* C19: every record GetFreeTier returns, freshly resolved or served from the
\* cache, has at least one item and a non-empty source address, and that
\* address is the address of the candidate document the record's items were
\* extracted from.
C19_RecordHasItemsAndSource ==
    /\ ResolvedFromDocument
    /\ \A info \in RecordsReturned \cup {entries[k].Info : k \in 1..Len(entries)} :
          /\ info # NilInfo
          /\ Len(info.Items) >= 1
          /\ info.SourceURL # ""
          /\ \E r \in Resolved : r.info = info

\* A record served from the cache has been returned.
C19_Witness ==
    \E p \in AllProcs :
       /\ GetFreeTierReturned(p)
       /\ loc[p].exists
       /\ loc[p].fetches = 0
       /\ loc[p].ret.info # NilInfo
       /\ loc[p].ret.info.SourceURL = "https://cloud.google.com/run/pricing"
       /\ Len(loc[p].ret.info.Items) = 1

---------------------------------------------------------------------------
(* Claims about the cache key, checked under Spec *)

\* The key of each service name the callers pass: the name lowercased, then
\* trimmed of surrounding whitespace, then with each space left replaced by a
\* hyphen.
KeyAsClaimed ==
    [name \in ServiceNames |->
       CASE name = "Cloud Run" -> "cloud-run"
         [] name = " cloud run" -> "cloud-run"
         [] name = "BigQuery" -> "bigquery"]

\* The pairs of service names the callers pass that differ only in letter
\* case or in leading and trailing whitespace.
Respellings ==
    {<<name, name>> : name \in ServiceNames}
    \cup {<<"Cloud Run", " cloud run">>, <<" cloud run", "Cloud Run">>}

\* Caller p, called with one spelling of a name, reads, writes and deletes
\* the entry under the key of the spelling n.
C20_ActsOnEntryOf(p, n) ==
    /\ Steps(p, "gf_read")
       => loc'[p].cached = IF KeyAsClaimed[n] \in DOMAIN cache
                           THEN cache[KeyAsClaimed[n]] ELSE NilEntry
    /\ Steps(p, "gf_store")
       => /\ KeyAsClaimed[n] \in DOMAIN cache'
          /\ cache'[KeyAsClaimed[n]] = Len(entries')
          /\ entries'[Len(entries')].Info = loc[p].freeTier
    /\ Steps(p, "ce_delete") => KeyAsClaimed[n] \notin DOMAIN cache'

\* C20: the cache key of a service name is the name lowercased, then trimmed
\* of surrounding whitespace, then with each remaining space replaced by a
\* hyphen; so two service names that differ only in letter case or in
\* leading/trailing whitespace read and write the same cache entry in
\* GetFreeTier and ClearCacheEntry.
C20_KeyOfName ==
    [][\A p \in Procs :
         /\ loc'[p].op \in {"GetFreeTier", "ClearCacheEntry"}
            => loc'[p].cacheKey = KeyAsClaimed[loc'[p].serviceName]
         /\ \A n \in ServiceNames :
              <<loc[p].serviceName, n>> \in Respellings
              => C20_ActsOnEntryOf(p, n)]_vars

\* ClearCacheEntry(" cloud run") has removed the entry that
\* GetFreeTier("Cloud Run") stored.
C20_Witness ==
    \E p \in Procs :
       /\ pc[p] = "done" /\ loc[p].op = "ClearCacheEntry"
       /\ loc[p].serviceName = " cloud run"
       /\ calls = 2
       /\ Len(entries) = 1
       /\ entries[1].Info.ServiceName = "Cloud Run"
       /\ cache = EmptyCache

---------------------------------------------------------------------------
(* Claims about ClearCache, ClearCacheEntry and GetCacheStats, under Spec *)

\* ClearCacheEntry of p removes the entry under the key of its name, if
\* there is one, and leaves every other entry as it is.
C21_RemovesOnlyItsEntry(p) ==
    Steps(p, "ce_delete")
    => LET key == KeyAsClaimed[loc[p].serviceName]
       IN  /\ DOMAIN cache' = DOMAIN cache \ {key}
           /\ \A k \in DOMAIN cache' : cache'[k] = cache[k]
           /\ entries' = entries

\* ClearCache of p leaves no entry.
C21_ClearsAll(p) == Steps(p, "cc_clear") => DOMAIN cache' = {}

\* GetCacheStats of p reports the entries there are, each counted once as
\* valid or as expired.
C21_CountsEntries(p) ==
    Steps(p, "gs_count")
    => /\ loc'[p].ret.total_entries = Cardinality(DOMAIN cache)
       /\ loc'[p].ret.valid_entries + loc'[p].ret.expired_entries
            = loc'[p].ret.total_entries
       /\ UNCHANGED <<cache, entries>>

\* C21: ClearCacheEntry(name) removes the entry stored under the normalized
\* key of name if there is one and leaves every other entry unchanged;
\* ClearCache leaves the cache with zero entries; GetCacheStats reports a
\* total equal to the number of entries that remain, and its valid and
\* expired counts sum to that total.
C21_ClearAndCount ==
    [][\A p \in Procs :
         /\ C21_RemovesOnlyItsEntry(p)
         /\ C21_ClearsAll(p)
         /\ C21_CountsEntries(p)]_vars

\* With an entry stored for "Cloud Run", ClearCacheEntry("BigQuery") has
\* returned and GetCacheStats has then counted the one entry that remains.
C21_Witness ==
    \E p, q \in Procs :
       /\ pc[p] = "done" /\ loc[p].op = "GetCacheStats"
       /\ loc[p].ret.total_entries = 1
       /\ pc[q] = "done" /\ loc[q].op = "ClearCacheEntry"
       /\ loc[q].serviceName = "BigQuery"
       /\ DOMAIN cache = {"cloud-run"}

---------------------------------------------------------------------------
(* Further claims about CalculateCost, checked under SpecCalc *)

\* One exact amount of money is at most another.
CostLeq(a, b) == a.units < b.units \/ (a.units = b.units /\ a.nanos <= b.nanos)

\* The usage does not exceed the width of the first tier; a lone tier has no
\* end.
WithinFirstTier(r, u) ==
    Len(r.Tiers) = 1 \/ u <= StartOf(r, 2) - StartOf(r, 1)

\* C22: for every rate table with strictly increasing start thresholds and
\* non-negative prices CalculateCost is monotonic in usage: a smaller usage
\* never costs more; and a usage that does not exceed the width of the first
\* tier costs the usage times the first tier's price, whatever tiers follow.
C22_MonotonicInUsage ==
    (Returned /\ rate # NilRate /\ Len(rate.Tiers) > 0 /\ StrictlyIncreasing(rate))
    => /\ \A u1 \in 0..usageAmount :
             CostLeq(CalculateCost(rate, u1).cost, calcResult.cost)
       /\ WithinFirstTier(rate, usageAmount)
          => calcResult.cost = TierPriceTimes(rate, 1, usageAmount)

\* A usage that fills the first of two tiers, the second priced otherwise,
\* has been costed, and less usage costs less.
C22_Witness ==
    /\ Returned /\ rate # NilRate /\ Len(rate.Tiers) = 2 /\ StrictlyIncreasing(rate)
    /\ usageAmount = StartOf(rate, 2) - StartOf(rate, 1)
    /\ usageAmount = 2
    /\ rate.Tiers[1].ListPrice.Units = "1"
    /\ rate.Tiers[2].ListPrice.Units = "0"
    /\ calcResult.cost = [units |-> 3, nanos |-> 0]
    /\ CalculateCost(rate, 1).cost = [units |-> 1, nanos |-> 500000000]

\* The sum of a list of quantities.
RECURSIVE SumOf(_)
SumOf(q) == IF q = <<>> THEN 0 ELSE Head(q) + SumOf(Tail(q))

\* The range of tier i: the next tier's start minus its own.
RangeOf(r, i) == StartOf(r, i + 1) - StartOf(r, i)

\* C29: in CalculateCost a tier whose range, the next tier's start minus its
\* own, is zero or negative is skipped and bills nothing; and for every
\* non-empty rate table, well-formed or not, and every usage u >= 0 the
\* quantities billed over all tiers sum to u, the last tier taking all the
\* usage still unbilled.
C29_BilledSumsToUsage ==
    (Returned /\ rate # NilRate /\ Len(rate.Tiers) > 0)
    => /\ ~calcResult.err
       /\ Len(calcResult.billed) = Len(rate.Tiers)
       /\ \A i \in 1..(Len(rate.Tiers) - 1) :
             RangeOf(rate, i) <= 0 => calcResult.billed[i] = 0
       /\ \A i \in 1..Len(rate.Tiers) : calcResult.billed[i] >= 0
       /\ SumOf(calcResult.billed) = usageAmount

\* A table whose first tier has a negative range and whose second has none:
\* both are skipped and the last tier bills all the usage.
C29_Witness ==
    /\ Returned /\ rate # NilRate /\ Len(rate.Tiers) = 3
    /\ RangeOf(rate, 1) < 0 /\ RangeOf(rate, 2) = 0
    /\ usageAmount = MaxUsage
    /\ calcResult.billed = <<0, 0, usageAmount>>

---------------------------------------------------------------------------
(* Claims about the price per unit of an estimate, under SpecEstimate *)

\* C30: in the estimate of estimate_cost, price_per_unit is the estimated
\* cost divided by the billable usage when the billable usage is positive;
\* when it is zero (no usage, or usage all covered by the free tier) it is the
\* first tier's price per unit, the units + nanos/1e9 that CalculateCost
\* prices that tier at.
C30_PricePerUnit ==
    \A p \in EstProcs :
       Estimated(p)
       => LET est   == loc[p].out.estimate
              first == PricePerUnit(loc[p].skuRate.Tiers[1])
          IN  /\ est.BillableUsage > 0
                 => est.PricePerUnit = [cost |-> est.EstimatedCost,
                                        per |-> est.BillableUsage]
              /\ est.BillableUsage = 0
                 => est.PricePerUnit = [cost |-> Normalize(first.units, first.nanos),
                                        per |-> 1]

---------------------------------------------------------------------------
(* Claims about ExtractPricingSection, checked under SpecSection *)

SectionReturned == call.fn = "ExtractPricingSection" /\ returned # NoResult

\* The pieces of a text that are pricing keywords, whatever their letter case.
KeywordsIn(content) ==
    {k \in 1..Len(content) :
       \E m \in 1..Len(sectionMarkers) : ToLower(content[k].text) = sectionMarkers[m]}

\* The earliest position of the input at which a keyword occurs.
EarliestKeyword(content) ==
    LET first == CHOOSE k \in KeywordsIn(content) :
                   \A j \in KeywordsIn(content) : k <= j
    IN  ByteLen(content, first - 1)

\* C23: ExtractPricingSection returns its input unchanged when none of its
\* pricing keywords occurs in the text, in any letter case; otherwise it
\* returns the contiguous piece of the input that starts at max(0, i - 200),
\* i the earliest position at which a keyword occurs, and is at most 5000
\* long, so that the result contains position i.
C23_SectionAroundKeyword ==
    SectionReturned
    => LET content == call.content
           length  == ByteLen(content, Len(content))
       IN  IF KeywordsIn(content) = {}
           THEN returned = [outcome |-> "content", from |-> 0, to |-> length]
           ELSE LET i == EarliestKeyword(content)
                IN  /\ returned.outcome = "slice"
                    /\ returned.from = Max(0, i - 200)
                    /\ returned.to = Min(length, returned.from + 5000)
                    /\ returned.from <= i /\ i < returned.to

---------------------------------------------------------------------------
(* Claims about the resolver, checked under SpecResolve *)

ResolveReturned == call.fn = "fetchFreeTierFromDocs" /\ returned # NoResult

\* The candidates the locator returned to the call.
Candidates ==
    Search("site:cloud.google.com " \o call.serviceName \o " pricing",
           SearchLimit, call.resp).results

\* A candidate the resolver does not skip: on the trusted host by its
\* address, a pricing page by its address or its title.
HintsPricing(c) ==
    Contains(ToLower(c.URL), "pricing") \/ Contains(ToLower(c.Title), "pricing")

Eligible(c) == Contains(c.URL, "cloud.google.com") /\ HintsPricing(c)

\* The items the text of a fetched candidate yields: the excerpt's, and the
\* whole text's when the excerpt has none.
Yield(text) ==
    IF text.pricingItems # <<>> THEN text.pricingItems ELSE text.fullItems

\* Candidate i is fetched with success and its text yields an item.
Yields(i) ==
    LET got == FetchAsText(Candidates[i].URL, call.net[i])
    IN  got.err = "" /\ Yield(got.text) # <<>>

\* The first eligible candidate that yields an item, 0 if there is none.
Winner ==
    LET winners == {i \in 1..Len(Candidates) : Eligible(Candidates[i]) /\ Yields(i)}
    IN  IF winners = {} THEN 0
        ELSE CHOOSE i \in winners : \A j \in winners : i <= j

\* The addresses of the eligible candidates from j up to the last one.
RECURSIVE EligibleAddresses(_, _)
EligibleAddresses(j, last) ==
    IF j > last THEN <<>>
    ELSE (IF Eligible(Candidates[j]) THEN <<Candidates[j].URL>> ELSE <<>>)
         \o EligibleAddresses(j + 1, last)

WinningText == call.net[Winner].text

\* C25: for a fetched candidate the resolver extracts items from the
\* pricing-focused excerpt first and from the full text only if the excerpt
\* yielded none, so when the excerpt yields an item the record's items are
\* exactly the excerpt's; the record's scope and period are classified from
\* the candidate's full fetched text, never from the excerpt.
C25_ExcerptFirst ==
    (ResolveReturned /\ Winner # 0)
    => /\ WinningText.pricingItems # <<>>
          => returned.info.Items = WinningText.pricingItems
       /\ WinningText.pricingItems = <<>>
          => returned.info.Items = WinningText.fullItems
       /\ returned.info.Scope = WinningText.scope
       /\ returned.info.Period = WinningText.period

\* A record built from a text whose excerpt names fewer items than the whole
\* text and classifies to another scope.
C25_Witness ==
    /\ ResolveReturned /\ Winner # 0
    /\ WinningText.pricingItems # <<>>
    /\ WinningText.pricingItems # WinningText.fullItems
    /\ WinningText.sectionScope # WinningText.scope
    /\ returned.info.Items = <<vCPUSeconds>>
    /\ returned.info.Scope = "account"

\* The fetch of candidate i fails, or its text yields no item.
GivesNothing(i) == ~Yields(i)

\* The places of the eligible candidates, in order.
EligiblePlaces == {i \in 1..Len(Candidates) : Eligible(Candidates[i])}

\* No address occurs twice in a list.
NoRepeat(l) == \A j, k \in 1..Len(l) : j # k => l[j] # l[k]

---------------------------------------------------------------------------
(* Claims about overlapping calls of the service, checked under Spec *)

\* Caller p has returned from a GetFreeTier that resolved and stored.
StoredAndReturned(p) ==
    /\ pc[p] = "done" /\ loc[p].op = "GetFreeTier"
    /\ loc[p].searches = 1 /\ loc[p].ret.info # NilInfo

\* A check of p that misses goes on to the resolver whatever the other
\* callers are doing, and the resolver runs its search.
C27_NotDeduplicated(p) ==
    /\ (Steps(p, "gf_check")
          /\ (~loc[p].exists \/ IsExpired(entries[loc[p].cached], now)))
       => pc'[p] = "gf_fetch"
    /\ Steps(p, "gf_fetch") => loc'[p].searches = 1

\* The store of p adds an entry of its own and makes it the one entry of its
\* key, whatever was stored there since p's check.
C27_StoresItsOwn(p) ==
    Steps(p, "gf_store")
    => /\ Len(entries') = Len(entries) + 1
       /\ entries'[Len(entries')].Info = loc[p].freeTier
       /\ DOMAIN cache' = DOMAIN cache \cup {loc[p].cacheKey}
       /\ \A k \in DOMAIN cache' :
             cache'[k] = IF k = loc[p].cacheKey THEN Len(entries') ELSE cache[k]

\* Two calls for one key that have both resolved, stored and returned: the
\* key has its entry, and it is the one stored last.
C27_LastStoreRemains ==
    \A p, q \in Procs :
       (p # q /\ StoredAndReturned(p) /\ StoredAndReturned(q)
          /\ loc[p].cacheKey = loc[q].cacheKey)
       => /\ loc[p].cacheKey \in DOMAIN cache
          /\ cache[loc[p].cacheKey] = Len(entries)
          /\ Len(entries) >= 2
          /\ entries[Len(entries)].Info \in {loc[p].ret.info, loc[q].ret.info}
          /\ {id \in 1..Len(entries) :
                \E k \in DOMAIN cache : k = loc[p].cacheKey /\ cache[k] = id}
               = {Len(entries)}

\* C27: two GetFreeTier calls for the same uncached (or expired) key that
\* overlap in time can both pass the cache check and both run the full
\* search-and-fetch pipeline; each successful one stores its own entry, the
\* entry stored last is the one that remains, and once both have finished the
\* cache holds exactly one entry for the key.
C27_OverlappingCalls ==
    [][/\ \A p \in Procs : C27_NotDeduplicated(p) /\ C27_StoresItsOwn(p)
       /\ C27_LastStoreRemains']_vars

\* Both callers were past the check for "cloud-run" before either stored;
\* both have resolved, stored and returned, and the second entry remains.
C27_Witness ==
    /\ calls = 2
    /\ \A p \in Procs : StoredAndReturned(p) /\ ~loc[p].exists
    /\ loc["p1"].serviceName = "Cloud Run" /\ loc["p2"].serviceName = " cloud run"
    /\ Len(entries) = 2
    /\ cache = [k \in {"cloud-run"} |-> 2]

\* Caller q has returned from a clear that covers the key of p.
ClearedFor(q, p) ==
    /\ pc[q] = "done"
    /\ \/ loc[q].op = "ClearCache"
       \/ loc[q].op = "ClearCacheEntry" /\ loc[q].cacheKey = loc[p].cacheKey

\* A clear by q leaves a call of p that is past its check where it is, with
\* the record it has resolved, and gives the lock back.
C28_ClearLeavesCallsRunning(p, q) ==
    (Steps(q, "cc_clear") \/ Steps(q, "ce_delete"))
    => /\ pc'[p] = pc[p] /\ loc'[p] = loc[p]
       /\ mu'.writer = NoProc

\* The store of p after a clear by q has returned puts p's record under the
\* key.
C28_StoresAfterClear(p, q) ==
    (Steps(p, "gf_store") /\ ClearedFor(q, p))
    => /\ loc[p].cacheKey \in DOMAIN cache'
       /\ entries'[cache'[loc[p].cacheKey]].Info = loc[p].freeTier
       /\ loc'[p].ret.info = loc[p].freeTier

\* C28: a GetFreeTier call that passed its cache check before a ClearCache or
\* ClearCacheEntry call ran still stores its result after the clear has
\* returned; so the cache can contain an entry for a key after the clear
\* returned although no GetFreeTier call was started after the clear.
C28_StoreSurvivesClear ==
    [][\A p, q \in Procs :
         p # q => C28_ClearLeavesCallsRunning(p, q) /\ C28_StoresAfterClear(p, q)]_vars

\* The call of p read the expired first entry of its key, so it started
\* before the ClearCache of q emptied the map; no call was started since, and
\* the map holds the entry p stored after the clear.
C28_Witness ==
    \E p, q \in Procs :
       /\ calls = MaxCalls
       /\ pc[q] = "done" /\ loc[q].op = "ClearCache"
       /\ pc[p] = "done" /\ loc[p].op = "GetFreeTier"
       /\ loc[p].exists /\ loc[p].cached = 1
       /\ Len(entries) = 2
       /\ cache = [k \in {loc[p].cacheKey} |-> 2]

=============================================================================
